---------------------------- MODULE Spec2Model ----------------------------
(***************************************************************************)
(* A model of the CyberEye reconnaissance pipeline:                        *)
(*   supabase/functions/subdomain-scan/index.ts  (the edge function)       *)
(*   the useScans hook (startScan / stopScan) that creates and stops scans *)
(*                                                                         *)
(* The module holds several specifications over one set of variables:      *)
(*   SpecDomain   isValidDomain applied to bounded inputs                  *)
(*   SpecLimiter  createLimiter under arbitrary limit() calls              *)
(*   SpecRate     rateLimitedFetch under concurrent callers and a clock    *)
(*   SpecIP       isPrivateIP applied to dotted quads                      *)
(*   SpecScore    calculateRiskScore applied to bounded inputs             *)
(*   Spec         one scan: startScan, the handler, its workers, stopScan  *)
(* Each specification holds the variables it does not use at their         *)
(* initial values.                                                         *)
(***************************************************************************)
EXTENDS Integers, Sequences, FiniteSets, TLC

VARIABLES
    \* ---- SpecDomain
    input,          \* the string handed to isValidDomain (a sequence of characters)
    verdict,        \* what isValidDomain returned, or NotRun
    \* ---- createLimiter (SpecLimiter and Spec)
    concurrency,    \* the limiter's parameter
    running,        \* the limiter's `running` counter
    queue,          \* the limiter's `queue` of resolvers, as the tasks that pushed them
    wpc,            \* where each task (candidate) is
    outcome,        \* how each task of SpecLimiter ended: "returned" or "threw"
    \* ---- the useScans hook (Spec)
    cpc,            \* where startScan is
    isScanning,     \* the hook's isScanning state
    currentScanId,  \* the hook's currentScanId state
    \* ---- the database (Spec)
    scanStatus,     \* scans.status of the scan's row
    scanRow,        \* the summary columns of the scan's row
    subRows,        \* the rows of table subdomains, in insertion order
    \* ---- the edge function handler (Spec)
    hpc,            \* where the handler is
    request,        \* the body of the request
    response,       \* the response returned
    candidates,     \* Array.from(discoveredSubdomains)
    results,        \* the handler's `results` array
    counts,         \* activeCount, anomalyCount, cloudCount, takeoverCount
    batchStart,     \* i of the batch loop
    issued,         \* every outgoing request so far, as <<kind, candidate>>
    \* ---- one worker per candidate (Spec)
    dnsReply,       \* the reply each candidate's DNS query got
    probe,          \* each candidate's checkHTTP call: where it is, what it returns
    httpData,       \* each worker's httpData
    result,         \* what each worker returned
    \* ---- rateLimitedFetch (SpecRate)
    now,            \* Date.now()
    rateLimiter,    \* the module's rateLimiter map: host -> time of the last request
    calls,          \* the calls of rateLimitedFetch: where each is, its host, its times
    \* ---- the pure functions (SpecIP, SpecScore)
    arg,            \* the argument handed to the function
    ret             \* [done, value]: whether the function has returned, and what

domainVars  == <<input, verdict>>
limiterVars == <<concurrency, running, queue, wpc, outcome>>
clientVars  == <<cpc, isScanning, currentScanId>>
dbVars      == <<scanStatus, scanRow, subRows>>
handlerVars == <<hpc, request, response, candidates, results, counts, batchStart, issued>>
workerVars  == <<dnsReply, probe, httpData, result>>
rateVars    == <<now, rateLimiter, calls>>
pureVars    == <<arg, ret>>
scanVars    == <<clientVars, dbVars, handlerVars, workerVars>>
vars == <<domainVars, limiterVars, rateVars, pureVars, scanVars>>

(***************************************************************************)
(* Strings are sequences of one-character strings.                         *)
(***************************************************************************)
UpperLetters == <<"A","B","C","D","E","F","G","H","I","J","K","L","M",
                  "N","O","P","Q","R","S","T","U","V","W","X","Y","Z">>
LowerLetters == <<"a","b","c","d","e","f","g","h","i","j","k","l","m",
                  "n","o","p","q","r","s","t","u","v","w","x","y","z">>
Digits == {"0","1","2","3","4","5","6","7","8","9"}

Range(s) == {s[i] : i \in DOMAIN s}
UpperSet == Range(UpperLetters)
LetterSet == Range(UpperLetters) \cup Range(LowerLetters)
IsUpper(c) == c \in UpperSet
IsLetter(c) == c \in LetterSet

\* String.prototype.toLowerCase, one character
LowerOf == [c \in UpperSet |->
               LowerLetters[CHOOSE i \in DOMAIN UpperLetters : UpperLetters[i] = c]]
ToLowerChar(c) == IF c \in UpperSet THEN LowerOf[c] ELSE c
ToLowerCase(s) == [i \in DOMAIN s |-> ToLowerChar(s[i])]

\* String.prototype.includes
Includes(s, sub) ==
    \E i \in 0..(Len(s) - Len(sub)) : SubSeq(s, i + 1, i + Len(sub)) = sub
\* String.prototype.endsWith
EndsWith(s, suf) ==
    /\ Len(suf) <= Len(s)
    /\ SubSeq(s, Len(s) - Len(suf) + 1, Len(s)) = suf

\* the pieces of s between its dots (s.split("."))
RECURSIVE SplitDots(_)
SplitDots(s) ==
    IF \A i \in DOMAIN s : s[i] # "."
    THEN <<s>>
    ELSE LET k == CHOOSE i \in DOMAIN s :
                      s[i] = "." /\ \A j \in 1..(i - 1) : s[j] # "."
         IN  <<SubSeq(s, 1, k - 1)>> \o SplitDots(SubSeq(s, k + 1, Len(s)))

(***************************************************************************)
(* isValidDomain (index.ts 21-84)                                          *)
(***************************************************************************)
BLOCKED_TLDS == {
    <<".","l","o","c","a","l">>,
    <<".","i","n","t","e","r","n","a","l">>,
    <<".","l","o","c","a","l","h","o","s","t">>,
    <<".","l","a","n">>,
    <<".","h","o","m","e">>,
    <<".","c","o","r","p">>,
    <<".","p","r","i","v","a","t","e">> }

BLOCKED_DOMAINS == {
    <<"1","6","9",".","2","5","4",".","1","6","9",".","2","5","4">>,
    <<"m","e","t","a","d","a","t","a",".","g","o","o","g","l","e",".","i","n","t","e","r","n","a","l">>,
    <<"m","e","t","a","d","a","t","a",".","a","z","u","r","e",".","c","o","m">> }

MaxLabelLen == 63
MaxDomainLen == 253

IsLabelChar(c) == IsLetter(c) \/ c \in Digits \/ c = "-"

\* /^[\d.]+$/
LooksLikeIP(s) == Len(s) >= 1 /\ \A i \in DOMAIN s : s[i] \in Digits \/ s[i] = "."

\* DOMAIN_REGEX = /^(?!-)[A-Za-z0-9-]{1,63}(?<!-)(\.[A-Za-z0-9-]{1,63})*\.[A-Za-z]{2,}$/
\* No character class of the expression holds the dot, so a match splits the
\* string at its dots in exactly one way: group 1 is the first piece (the
\* lookahead and the lookbehind forbid a hyphen at its two ends), the starred
\* group takes each middle piece (1 to 63 label characters, hyphens anywhere),
\* and the tail takes the last piece (2 or more letters, no upper limit).
DomainRegexTest(s) ==
    LET p == SplitDots(s)
        n == Len(p)
    IN  /\ n >= 2
        /\ Len(p[1]) \in 1..MaxLabelLen
        /\ \A i \in DOMAIN p[1] : IsLabelChar(p[1][i])
        /\ p[1][1] # "-"
        /\ p[1][Len(p[1])] # "-"
        /\ \A k \in 2..(n - 1) :
              /\ Len(p[k]) \in 1..MaxLabelLen
              /\ \A i \in DOMAIN p[k] : IsLabelChar(p[k][i])
        /\ Len(p[n]) >= 2
        /\ \A i \in DOMAIN p[n] : IsLetter(p[n][i])

Undefined == "undefined"

\* the BLOCKED_TLDS test without toLowerCase
EndsWithBlockedTLD_CaseSensitive(domain) ==
    \E tld \in BLOCKED_TLDS : EndsWith(domain, tld)

\* the BLOCKED_TLDS test of isValidDomain (line 69)
EndsWithBlockedTLD(domain) ==
    \E tld \in BLOCKED_TLDS : EndsWith(ToLowerCase(domain), tld)

\* the BLOCKED_DOMAINS test of isValidDomain (line 63)
ContainsBlockedDomain(domain) ==
    \E blocked \in BLOCKED_DOMAINS : Includes(ToLowerCase(domain), blocked)

isValidDomain(domain) ==
    IF LooksLikeIP(domain)
    THEN [valid |-> FALSE,
          error |-> "IP addresses are not allowed. Please provide a domain name."]
    ELSE IF Includes(domain, <<":">>)
    THEN [valid |-> FALSE,
          error |-> "IPv6 addresses are not allowed. Please provide a domain name."]
    ELSE IF ContainsBlockedDomain(domain)
    THEN [valid |-> FALSE, error |-> "This domain is not allowed for scanning."]
    ELSE IF EndsWithBlockedTLD(domain)
    THEN [valid |-> FALSE,
          error |-> "Internal/local domains are not allowed for scanning."]
    ELSE IF ~DomainRegexTest(domain)
    THEN [valid |-> FALSE,
          error |-> "Invalid domain format. Please provide a valid domain name."]
    ELSE IF Len(domain) > MaxDomainLen
    THEN [valid |-> FALSE, error |-> "Domain name is too long."]
    ELSE [valid |-> TRUE, error |-> Undefined]

(***************************************************************************)
(* SpecDomain: isValidDomain on every string made of at most MaxParts      *)
(* fragments.                                                              *)
(***************************************************************************)
MaxParts == 3

Fragments == {
    <<"a">>,
    <<"-">>,
    <<".">>,
    <<"1">>,
    <<":">>,
    <<"c","o","m">>,
    <<"e","x","a","m","p","l","e">>,
    <<"a",".","-","b",".">>,
    <<"1","9","2",".","1","6","8",".","1",".","1">>,
    <<"1","6","9",".","2","5","4",".","1","6","9",".","2","5","4">>,
    <<"M","e","t","a","d","a","t","a",".","G","o","o","g","l","e",".","I","n","t","e","r","n","a","l">>,
    <<"m","e","t","a","d","a","t","a",".","A","Z","U","R","E",".","c","o","m">>,
    <<".","l","o","c","a","l">>,
    <<".","I","n","t","e","r","n","a","l">>,
    <<".","L","O","C","A","L","H","O","S","T">>,
    <<".","l","a","n">>,
    <<".","H","o","m","e">>,
    <<".","c","o","r","p">>,
    <<".","P","R","I","V","A","T","E">> }

RECURSIVE Concats(_)
Concats(n) ==
    IF n = 0 THEN {<<>>}
    ELSE LET shorter == Concats(n - 1)
         IN  shorter \cup {s \o f : s \in shorter, f \in Fragments}

DomainInputs == Concats(MaxParts)

NotRun == [valid |-> FALSE, error |-> "not run"]

\* the variables of createLimiter, for the specifications that create none
LimiterUnused ==
    /\ concurrency = 0 /\ running = 0 /\ queue = <<>>
    /\ wpc = <<>> /\ outcome = <<>>

\* the variables of SpecDomain, for the other specifications
DomainUnused == input = <<>> /\ verdict = NotRun

\* the variables of SpecRate, for the other specifications
RateUnused == now = 0 /\ rateLimiter = <<>> /\ calls = <<>>

\* the variables of SpecIP and SpecScore, for the other specifications
PureUnused == arg = <<>> /\ ret = <<>>

\* the variables of Spec, for the other specifications
ScanUnused ==
    /\ cpc = "idle" /\ isScanning = FALSE /\ currentScanId = 0
    /\ scanStatus = "none" /\ scanRow = <<>> /\ subRows = <<>>
    /\ hpc = "idle" /\ request = <<>> /\ response = <<>>
    /\ candidates = <<>> /\ results = <<>> /\ counts = <<>>
    /\ batchStart = 0 /\ issued = {}
    /\ dnsReply = <<>> /\ probe = <<>> /\ httpData = <<>> /\ result = <<>>

InitDomain ==
    /\ input \in DomainInputs
    /\ verdict = NotRun
    /\ LimiterUnused
    /\ RateUnused
    /\ PureUnused
    /\ ScanUnused

Validate ==
    /\ verdict = NotRun
    /\ verdict' = isValidDomain(input)
    /\ UNCHANGED <<input, limiterVars, rateVars, pureVars, scanVars>>

NextDomain == Validate

SpecDomain == InitDomain /\ [][NextDomain]_vars

(***************************************************************************)
(* Claims about isValidDomain                                              *)
(***************************************************************************)
\* the hosts and the top-level domains the specification lists
ReservedTLDs == {
    <<".","l","o","c","a","l">>,
    <<".","i","n","t","e","r","n","a","l">>,
    <<".","l","o","c","a","l","h","o","s","t">>,
    <<".","l","a","n">>,
    <<".","h","o","m","e">>,
    <<".","c","o","r","p">>,
    <<".","p","r","i","v","a","t","e">> }
MetadataHosts == {
    <<"1","6","9",".","2","5","4",".","1","6","9",".","2","5","4">>,
    <<"m","e","t","a","d","a","t","a",".","g","o","o","g","l","e",".","i","n","t","e","r","n","a","l">>,
    <<"m","e","t","a","d","a","t","a",".","a","z","u","r","e",".","c","o","m">> }

\* a dotted quad: four pieces of one to three digits
IsIPv4Literal(s) ==
    LET p == SplitDots(s)
    IN  /\ Len(p) = 4
        /\ \A k \in 1..4 : Len(p[k]) \in 1..3 /\ \A i \in DOMAIN p[k] : p[k][i] \in Digits

\* s and t are the same string up to the case of their letters
SameIgnoringCase(s, t) ==
    /\ Len(s) = Len(t)
    /\ \A i \in DOMAIN s : ToLowerChar(s[i]) = ToLowerChar(t[i])

Forbidden(s) ==
    \/ IsIPv4Literal(s)
    \/ \E i \in DOMAIN s : s[i] = ":"
    \/ \E h \in MetadataHosts : \E i \in 1..(Len(s) - Len(h) + 1) :
           SameIgnoringCase(SubSeq(s, i, i + Len(h) - 1), h)
    \/ \E t \in ReservedTLDs :
           /\ Len(t) <= Len(s)
           /\ SameIgnoringCase(SubSeq(s, Len(s) - Len(t) + 1, Len(s)), t)

\* C10: isValidDomain rejects, with a non-empty reason, every input that is an
\* IPv4 literal, contains a colon, contains a metadata-service host in any
\* letter case, or ends with a reserved top-level domain in any letter case.
C10_ForbiddenRejected ==
    (verdict # NotRun /\ Forbidden(input))
        => (verdict.valid = FALSE /\ verdict.error \notin {Undefined, ""})

\* a reserved top-level domain written in upper case, on a name the format
\* test would accept, has been rejected
C10_Witness ==
    /\ verdict # NotRun
    /\ Forbidden(input)
    /\ DomainRegexTest(input)
    /\ \E i \in DOMAIN input : IsUpper(input[i])
    /\ verdict.valid = FALSE
    /\ verdict.error = "Internal/local domains are not allowed for scanning."

\* a label of the grammar: 1 to 63 letters, digits and hyphens, no hyphen at
\* either end
IsGrammarLabel(l) ==
    /\ Len(l) \in 1..63
    /\ \A i \in DOMAIN l : IsLetter(l[i]) \/ l[i] \in Digits \/ l[i] = "-"
    /\ l[1] # "-"
    /\ l[Len(l)] # "-"

SatisfiesGrammar(s) ==
    LET p == SplitDots(s)
    IN  /\ Len(p) >= 2
        /\ \A k \in DOMAIN p : IsGrammarLabel(p[k])
        /\ Len(p[Len(p)]) >= 2
        /\ \A i \in DOMAIN p[Len(p)] : IsLetter(p[Len(p)][i])
        /\ Len(s) <= 253

\* C11: every domain isValidDomain accepts satisfies the label grammar: two
\* labels or more, every label 1 to 63 letters, digits and hyphens with no
\* hyphen at either end, the last label two or more letters, at most 253
\* characters in all.
C11_AcceptedSatisfiesGrammar ==
    (verdict # NotRun /\ verdict.valid) => SatisfiesGrammar(input)

(***************************************************************************)
(* createLimiter (index.ts 590-610)                                        *)
(*                                                                         *)
(*   while (running >= concurrency) await new Promise(r => queue.push(r)); *)
(*   running++;                                                            *)
(*   try { return await fn(); }                                            *)
(*   finally { running--; if (queue.length > 0) queue.shift()(); }         *)
(*                                                                         *)
(* One action is one run of JavaScript between two awaits.  A task is      *)
(*   "idle"     limit() not called yet                                     *)
(*   "waiting"  its resolver is in the queue                               *)
(*   "woken"    its resolver was called, its continuation has not run yet  *)
(*   "run"      fn() started and has not settled                           *)
(*   "settled"  fn() returned or threw, the finally block has not run yet  *)
(*   "done"     the finally block has run                                  *)
(***************************************************************************)
MAX_CONCURRENT == 10
MaxLimit == 2
MaxPool == 1
MaxTasks == 3

Min(a, b) == IF a <= b THEN a ELSE b

Tasks == DOMAIN wpc

\* the loop condition on the first pass, in the call of limit() (line 596)
MustWait(r, k) == r >= k

\* an `if` in place of the `while`: a woken task never looks again
ResumeMustWait_If(r, k) == FALSE
\* the loop condition evaluated again by a task whose resolver was called (line 596)
ResumeMustWait(r, k) == r >= k

\* The limiter's state as one value: [running, queue, wpc].
Limiter == [running |-> running, queue |-> queue, wpc |-> wpc]

\* line 597: push the resolver and suspend
Parked(L, t) ==
    [L EXCEPT !.queue = Append(L.queue, t), !.wpc[t] = "waiting"]

\* lines 599-601: running++ and fn() is called; the task goes to state `start`
Admitted(L, t, start) ==
    [L EXCEPT !.running = L.running + 1, !.wpc[t] = start]

\* limit(fn) is called for task t: lines 596-601 up to the first await
Called(L, t, k, start) ==
    IF MustWait(L.running, k) THEN Parked(L, t) ELSE Admitted(L, t, start)

\* the continuation of a task whose resolver was called: the loop again
Resumed(L, t, k, start) ==
    IF ResumeMustWait(L.running, k) THEN Parked(L, t) ELSE Admitted(L, t, start)

\* a finally block that wakes the task parked last
Released_WakesLast(L, t) ==
    IF Len(L.queue) > 0
    THEN [running |-> L.running - 1,
          queue |-> SubSeq(L.queue, 1, Len(L.queue) - 1),
          wpc |-> [L.wpc EXCEPT ![t] = "done", ![L.queue[Len(L.queue)]] = "woken"]]
    ELSE [L EXCEPT !.running = L.running - 1, !.wpc[t] = "done"]

\* a finally block that frees the slot and wakes nobody
Released_NoWake(L, t) ==
    [L EXCEPT !.running = L.running - 1, !.wpc[t] = "done"]
\* the finally block (lines 603-607) run by task t
Released(L, t) ==
    IF Len(L.queue) > 0
    THEN [running |-> L.running - 1,
          queue |-> Tail(L.queue),
          wpc |-> [L.wpc EXCEPT ![t] = "done", ![Head(L.queue)] = "woken"]]
    ELSE [L EXCEPT !.running = L.running - 1, !.wpc[t] = "done"]

SetLimiter(L) ==
    /\ running' = L.running
    /\ queue' = L.queue
    /\ wpc' = L.wpc

(***************************************************************************)
(* SpecLimiter: limit() called at arbitrary times for tasks that return or *)
(* throw at arbitrary times.                                               *)
(***************************************************************************)
InitLimiter ==
    /\ concurrency \in 1..Min(MAX_CONCURRENT, MaxLimit)
    /\ running = 0
    /\ queue = <<>>
    /\ wpc = [t \in 1..MaxTasks |-> "idle"]
    /\ outcome = [t \in 1..MaxTasks |-> "none"]
    /\ DomainUnused
    /\ RateUnused
    /\ PureUnused
    /\ ScanUnused

\* limit(fn) is called
Call(t) ==
    /\ wpc[t] = "idle"
    /\ SetLimiter(Called(Limiter, t, concurrency, "run"))
    /\ UNCHANGED <<concurrency, outcome, domainVars, rateVars, pureVars, scanVars>>

\* a woken task runs
Resume(t) ==
    /\ wpc[t] = "woken"
    /\ SetLimiter(Resumed(Limiter, t, concurrency, "run"))
    /\ UNCHANGED <<concurrency, outcome, domainVars, rateVars, pureVars, scanVars>>

\* fn() resolves
TaskReturns(t) ==
    /\ wpc[t] = "run"
    /\ wpc' = [wpc EXCEPT ![t] = "settled"]
    /\ outcome' = [outcome EXCEPT ![t] = "returned"]
    /\ UNCHANGED <<concurrency, running, queue, domainVars, rateVars, pureVars, scanVars>>

\* fn() rejects
TaskThrows(t) ==
    /\ wpc[t] = "run"
    /\ wpc' = [wpc EXCEPT ![t] = "settled"]
    /\ outcome' = [outcome EXCEPT ![t] = "threw"]
    /\ UNCHANGED <<concurrency, running, queue, domainVars, rateVars, pureVars, scanVars>>

\* the finally block, after either outcome
Release(t) ==
    /\ wpc[t] = "settled"
    /\ SetLimiter(Released(Limiter, t))
    /\ UNCHANGED <<concurrency, outcome, domainVars, rateVars, pureVars, scanVars>>

NextLimiter ==
    \/ \E t \in Tasks : Call(t)
    \/ \E t \in Tasks : Resume(t)
    \/ \E t \in Tasks : TaskReturns(t)
    \/ \E t \in Tasks : TaskThrows(t)
    \/ \E t \in Tasks : Release(t)

SpecLimiter == InitLimiter /\ [][NextLimiter]_vars

\* the tasks that have been started and have not finished
Started == {t \in Tasks : wpc[t] = "run"}

\* C1: the number of tasks started and not yet finished never exceeds the
\* limiter's concurrency, whatever the order of limit() calls, returns and
\* throws; nor does the limiter's own counter.
C1_AtMostKStarted ==
    /\ Cardinality(Started) <= concurrency
    /\ running <= concurrency

\* the limiter is full with a task parked behind it, after a task that threw
\* has run its finally block
C1_Witness ==
    /\ Cardinality(Started) = concurrency
    /\ Len(queue) > 0
    /\ \E t \in Tasks : outcome[t] = "threw" /\ wpc[t] = "done"

(***************************************************************************)
(* Detection heuristics (index.ts 428-511, 804-862)                        *)
(*                                                                         *)
(* Every pattern of the tables carries the i flag and is one of            *)
(*   "suffix"    /\.x\.y$/i      the lower-cased target ends with text     *)
(*   "substr"    /x\./i          the lower-cased target contains text      *)
(*   "s3region"  /\.s3-[a-z0-9-]+\.amazonaws\.com$/i                       *)
(***************************************************************************)
Null == <<"null">>

ANOMALY_PATTERNS == <<
    <<"b","a","c","k","u","p">>,
    <<"b","a","k">>,
    <<"o","l","d">>,
    <<"t","e","m","p">>,
    <<"t","m","p">>,
    <<"t","e","s","t">>,
    <<"d","e","v">>,
    <<"s","t","a","g","i","n","g">>,
    <<"i","n","t","e","r","n","a","l">>,
    <<"a","d","m","i","n">>,
    <<"d","e","b","u","g">>,
    <<"l","e","g","a","c","y">>,
    <<"a","r","c","h","i","v","e">> >>

CLOUD_PATTERNS == <<
    [provider |-> "aws", patterns |-> <<
        [kind |-> "suffix", text |-> <<".","a","m","a","z","o","n","a","w","s",".","c","o","m">>],
        [kind |-> "suffix", text |-> <<".","a","w","s",".","a","m","a","z","o","n",".","c","o","m">>],
        [kind |-> "substr", text |-> <<"s","3",".">>],
        [kind |-> "substr", text |-> <<"e","c","2",".">>],
        [kind |-> "substr", text |-> <<".","e","l","b",".">>] >>],
    [provider |-> "azure", patterns |-> <<
        [kind |-> "suffix", text |-> <<".","a","z","u","r","e",".","c","o","m">>],
        [kind |-> "suffix", text |-> <<".","a","z","u","r","e","w","e","b","s","i","t","e","s",".","n","e","t">>],
        [kind |-> "suffix", text |-> <<".","c","l","o","u","d","a","p","p",".","a","z","u","r","e",".","c","o","m">>],
        [kind |-> "suffix", text |-> <<".","b","l","o","b",".","c","o","r","e",".","w","i","n","d","o","w","s",".","n","e","t">>] >>],
    [provider |-> "gcp", patterns |-> <<
        [kind |-> "suffix", text |-> <<".","g","o","o","g","l","e","a","p","i","s",".","c","o","m">>],
        [kind |-> "suffix", text |-> <<".","a","p","p","s","p","o","t",".","c","o","m">>],
        [kind |-> "suffix", text |-> <<".","c","l","o","u","d",".","g","o","o","g","l","e",".","c","o","m">>],
        [kind |-> "suffix", text |-> <<".","s","t","o","r","a","g","e",".","g","o","o","g","l","e","a","p","i","s",".","c","o","m">>] >>],
    [provider |-> "cloudflare", patterns |-> <<
        [kind |-> "suffix", text |-> <<".","c","l","o","u","d","f","l","a","r","e",".","c","o","m">>],
        [kind |-> "suffix", text |-> <<".","c","d","n",".","c","l","o","u","d","f","l","a","r","e",".","n","e","t">>] >>],
    [provider |-> "digitalocean", patterns |-> <<
        [kind |-> "suffix", text |-> <<".","d","i","g","i","t","a","l","o","c","e","a","n",".","c","o","m">>],
        [kind |-> "suffix", text |-> <<".","d","i","g","i","t","a","l","o","c","e","a","n","s","p","a","c","e","s",".","c","o","m">>] >>],
    [provider |-> "heroku", patterns |-> <<
        [kind |-> "suffix", text |-> <<".","h","e","r","o","k","u","a","p","p",".","c","o","m">>] >>],
    [provider |-> "vercel", patterns |-> <<
        [kind |-> "suffix", text |-> <<".","v","e","r","c","e","l",".","a","p","p">>],
        [kind |-> "suffix", text |-> <<".","n","o","w",".","s","h">>] >>],
    [provider |-> "netlify", patterns |-> <<
        [kind |-> "suffix", text |-> <<".","n","e","t","l","i","f","y",".","a","p","p">>],
        [kind |-> "suffix", text |-> <<".","n","e","t","l","i","f","y",".","c","o","m">>] >>] >>

TAKEOVER_FINGERPRINTS == <<
    [type |-> "AWS S3",
     patterns |-> << [kind |-> "suffix", text |-> <<".","s","3",".","a","m","a","z","o","n","a","w","s",".","c","o","m">>], [kind |-> "s3region", text |-> <<".","a","m","a","z","o","n","a","w","s",".","c","o","m">>] >>,
     errorSignatures |-> <<
        <<"N","o","S","u","c","h","B","u","c","k","e","t">>,
        <<"T","h","e"," ","s","p","e","c","i","f","i","e","d"," ","b","u","c","k","e","t"," ","d","o","e","s"," ","n","o","t"," ","e","x","i","s","t">> >>],
    [type |-> "GitHub Pages",
     patterns |-> << [kind |-> "suffix", text |-> <<".","g","i","t","h","u","b",".","i","o">>] >>,
     errorSignatures |-> <<
        <<"T","h","e","r","e"," ","i","s","n","'","t"," ","a"," ","G","i","t","H","u","b"," ","P","a","g","e","s"," ","s","i","t","e"," ","h","e","r","e">>,
        <<"4","0","4">> >>],
    [type |-> "Heroku",
     patterns |-> << [kind |-> "suffix", text |-> <<".","h","e","r","o","k","u","a","p","p",".","c","o","m">>] >>,
     errorSignatures |-> <<
        <<"n","o","-","s","u","c","h","-","a","p","p">>,
        <<"T","h","e","r","e"," ","i","s"," ","n","o"," ","a","p","p"," ","c","o","n","f","i","g","u","r","e","d"," ","a","t"," ","t","h","a","t"," ","h","o","s","t","n","a","m","e">>,
        <<"h","e","r","o","k","u","c","d","n",".","c","o","m","/","e","r","r","o","r","-","p","a","g","e","s">> >>],
    [type |-> "Azure",
     patterns |-> << [kind |-> "suffix", text |-> <<".","a","z","u","r","e","w","e","b","s","i","t","e","s",".","n","e","t">>], [kind |-> "suffix", text |-> <<".","c","l","o","u","d","a","p","p",".","a","z","u","r","e",".","c","o","m">>] >>,
     errorSignatures |-> <<
        <<"4","0","4"," ","W","e","b"," ","S","i","t","e"," ","n","o","t"," ","f","o","u","n","d">>,
        <<"A","z","u","r","e"," ","W","e","b"," ","A","p","p"," ","-"," ","D","e","f","a","u","l","t">>,
        <<"d","o","e","s"," ","n","o","t"," ","e","x","i","s","t">> >>],
    [type |-> "CloudFront",
     patterns |-> << [kind |-> "suffix", text |-> <<".","c","l","o","u","d","f","r","o","n","t",".","n","e","t">>] >>,
     errorSignatures |-> <<
        <<"B","a","d"," ","r","e","q","u","e","s","t">>,
        <<"E","R","R","O","R",":"," ","T","h","e"," ","r","e","q","u","e","s","t"," ","c","o","u","l","d"," ","n","o","t"," ","b","e"," ","s","a","t","i","s","f","i","e","d">> >>],
    [type |-> "Pantheon",
     patterns |-> << [kind |-> "suffix", text |-> <<".","p","a","n","t","h","e","o","n",".","i","o">>] >>,
     errorSignatures |-> <<
        <<"4","0","4"," ","e","r","r","o","r"," ","u","n","k","n","o","w","n"," ","s","i","t","e">>,
        <<"T","h","e"," ","g","o","d","s"," ","a","r","e"," ","w","i","s","e">> >>],
    [type |-> "Fastly",
     patterns |-> << [kind |-> "suffix", text |-> <<".","f","a","s","t","l","y",".","n","e","t">>] >>,
     errorSignatures |-> <<
        <<"F","a","s","t","l","y"," ","e","r","r","o","r",":"," ","u","n","k","n","o","w","n"," ","d","o","m","a","i","n">> >>],
    [type |-> "Shopify",
     patterns |-> << [kind |-> "suffix", text |-> <<".","m","y","s","h","o","p","i","f","y",".","c","o","m">>] >>,
     errorSignatures |-> <<
        <<"S","o","r","r","y",","," ","t","h","i","s"," ","s","h","o","p"," ","i","s"," ","c","u","r","r","e","n","t","l","y"," ","u","n","a","v","a","i","l","a","b","l","e">>,
        <<"O","n","l","y"," ","o","n","e"," ","s","t","e","p"," ","l","e","f","t">> >>],
    [type |-> "Tumblr",
     patterns |-> << [kind |-> "suffix", text |-> <<".","t","u","m","b","l","r",".","c","o","m">>] >>,
     errorSignatures |-> <<
        <<"T","h","e","r","e","'","s"," ","n","o","t","h","i","n","g"," ","h","e","r","e">>,
        <<"W","h","a","t","e","v","e","r"," ","y","o","u"," ","w","e","r","e"," ","l","o","o","k","i","n","g"," ","f","o","r">> >>],
    [type |-> "WordPress",
     patterns |-> << [kind |-> "suffix", text |-> <<".","w","o","r","d","p","r","e","s","s",".","c","o","m">>] >>,
     errorSignatures |-> <<
        <<"D","o"," ","y","o","u"," ","w","a","n","t"," ","t","o"," ","r","e","g","i","s","t","e","r">> >>],
    [type |-> "Ghost",
     patterns |-> << [kind |-> "suffix", text |-> <<".","g","h","o","s","t",".","i","o">>] >>,
     errorSignatures |-> <<
        <<"T","h","e"," ","t","h","i","n","g"," ","y","o","u"," ","w","e","r","e"," ","l","o","o","k","i","n","g"," ","f","o","r"," ","i","s"," ","n","o"," ","l","o","n","g","e","r"," ","h","e","r","e">> >>] >>

S3Head == <<".","s","3","-">>
S3Tail == <<".","a","m","a","z","o","n","a","w","s",".","c","o","m">>

\* RegExp.prototype.test of one pattern of the tables, on the lower-cased target
MatchesLowered(p, t) ==
    CASE p.kind = "suffix" -> EndsWith(t, p.text)
      [] p.kind = "substr" -> Includes(t, p.text)
      [] p.kind = "s3region" ->
            /\ EndsWith(t, S3Tail)
            /\ \E i \in 1..(Len(t) - Len(S3Tail) - Len(S3Head)) :
                  /\ SubSeq(t, i, i + Len(S3Head) - 1) = S3Head
                  /\ \A j \in (i + Len(S3Head))..(Len(t) - Len(S3Tail)) :
                        IsLabelChar(t[j])

MatchesPattern(p, target) == MatchesLowered(p, ToLowerCase(target))

\* a value JavaScript treats as true: neither null nor the empty string
Truthy(s) == s # Null /\ s # <<>>

\* the index of the first element of sequence s that satisfies Test, or 0
FirstIndex(s, Test(_)) ==
    LET hits == {i \in DOMAIN s : Test(s[i])}
    IN  IF hits = {} THEN 0 ELSE CHOOSE i \in hits : \A j \in hits : i <= j

NoProvider == "null"

\* a detector that looks at the candidate name alone
detectCloudProvider_NameOnly(subdomain, cname) ==
    LET lowered == ToLowerCase(subdomain)
        Hit(entry) == \E i \in DOMAIN entry.patterns :
                          MatchesLowered(entry.patterns[i], lowered)
        k == FirstIndex(CLOUD_PATTERNS, Hit)
    IN  IF k = 0 THEN NoProvider ELSE CLOUD_PATTERNS[k].provider

detectCloudProvider(subdomain, cname) ==
    LET toCheck == {ToLowerCase(x) : x \in {y \in {subdomain, cname} : Truthy(y)}}
        Hit(entry) == \E i \in DOMAIN entry.patterns : \E target \in toCheck :
                          MatchesLowered(entry.patterns[i], target)
        k == FirstIndex(CLOUD_PATTERNS, Hit)
    IN  IF k = 0 THEN NoProvider ELSE CLOUD_PATTERNS[k].provider

\* reason is the source of the pattern that matched ("Suspicious pattern: " + it)
detectAnomaly(subdomain) ==
    LET lowered == ToLowerCase(subdomain)
        Hit(pattern) == Includes(lowered, pattern)
        k == FirstIndex(ANOMALY_PATTERNS, Hit)
    IN  IF k = 0 THEN [isAnomaly |-> FALSE, reason |-> Null]
        ELSE [isAnomaly |-> TRUE, reason |-> ANOMALY_PATTERNS[k]]

NullStatus == 0 - 1
NoType == "null"

\* the function without the GitHub Pages test of lines 853-855
checkTakeoverVulnerability_BodyOnly(cname, responseBody, httpStatus, httpsStatus) ==
    IF ~Truthy(cname) THEN [vulnerable |-> FALSE, type |-> NoType, verified |-> FALSE]
    ELSE
    LET lowered == ToLowerCase(cname)
        Hit(fp) == \E i \in DOMAIN fp.patterns : MatchesLowered(fp.patterns[i], lowered)
        k == FirstIndex(TAKEOVER_FINGERPRINTS, Hit)
    IN  IF k = 0 THEN [vulnerable |-> FALSE, type |-> NoType, verified |-> FALSE]
        ELSE LET fp == TAKEOVER_FINGERPRINTS[k]
             IN  [vulnerable |-> TRUE, type |-> fp.type,
                  verified |-> /\ Truthy(responseBody)
                               /\ \E i \in DOMAIN fp.errorSignatures :
                                      Includes(responseBody, fp.errorSignatures[i])]
checkTakeoverVulnerability(cname, responseBody, httpStatus, httpsStatus) ==
    IF ~Truthy(cname) THEN [vulnerable |-> FALSE, type |-> NoType, verified |-> FALSE]
    ELSE
    LET lowered == ToLowerCase(cname)
        Hit(fp) == \E i \in DOMAIN fp.patterns : MatchesLowered(fp.patterns[i], lowered)
        k == FirstIndex(TAKEOVER_FINGERPRINTS, Hit)
    IN  IF k = 0 THEN [vulnerable |-> FALSE, type |-> NoType, verified |-> FALSE]
        ELSE LET fp == TAKEOVER_FINGERPRINTS[k]
                 bySignature ==
                     /\ Truthy(responseBody)
                     /\ \E i \in DOMAIN fp.errorSignatures :
                            Includes(responseBody, fp.errorSignatures[i])
                 byStatus ==
                     /\ fp.type = "GitHub Pages"
                     /\ (httpStatus = 404 \/ httpsStatus = 404)
             IN  [vulnerable |-> TRUE, type |-> fp.type,
                  verified |-> bySignature \/ byStatus]

(***************************************************************************)
(* calculateRiskScore (index.ts 864-900)                                   *)
(***************************************************************************)
SensitivePorts == {22, 23, 3306, 5432, 6379, 27017, 9200, 11211}

\* a status test that asks for null only
StatusTruthy_NotNull(st) == st # NullStatus
\* !x for a status: null and 0 are false
StatusTruthy(st) == st # NullStatus /\ st # 0

\* if (x) for a provider name: null and "" are false
ProviderTruthy(p) == p # NoProvider /\ p # ""

\* lines 876-898 without the Math.min of line 899
calculateRiskScore_Unclamped(data) ==
    LET takeover == IF data.takeoverVerified THEN 50
                    ELSE IF data.takeoverVulnerable THEN 30 ELSE 0
        anomaly == IF data.isAnomaly THEN 20 ELSE 0
        noHttps == IF ~StatusTruthy(data.httpsStatus) /\ StatusTruthy(data.httpStatus)
                   THEN 15 ELSE 0
        reachable == IF data.httpStatus = 200 \/ data.httpsStatus = 200 THEN 5 ELSE 0
        cloudAsset == IF ProviderTruthy(data.cloudProvider) THEN 5 ELSE 0
        ports == 10 * Cardinality({i \in DOMAIN data.exposedPorts :
                                      data.exposedPorts[i] \in SensitivePorts})
        serverHeader == IF Truthy(data.server) THEN 2 ELSE 0
        tech == IF Len(data.technologies) > 0
                THEN Min(Len(data.technologies) * 2, 6) ELSE 0
    IN  takeover + anomaly + noHttps + reachable + cloudAsset + ports
            + serverHeader + tech
calculateRiskScore(data) ==
    LET takeover == IF data.takeoverVerified THEN 50
                    ELSE IF data.takeoverVulnerable THEN 30 ELSE 0
        anomaly == IF data.isAnomaly THEN 20 ELSE 0
        noHttps == IF ~StatusTruthy(data.httpsStatus) /\ StatusTruthy(data.httpStatus)
                   THEN 15 ELSE 0
        reachable == IF data.httpStatus = 200 \/ data.httpsStatus = 200 THEN 5 ELSE 0
        cloudAsset == IF ProviderTruthy(data.cloudProvider) THEN 5 ELSE 0
        ports == 10 * Cardinality({i \in DOMAIN data.exposedPorts :
                                      data.exposedPorts[i] \in SensitivePorts})
        serverHeader == IF Truthy(data.server) THEN 2 ELSE 0
        tech == IF Len(data.technologies) > 0
                THEN Min(Len(data.technologies) * 2, 6) ELSE 0
    IN  Min(takeover + anomaly + noHttps + reachable + cloudAsset + ports
              + serverHeader + tech, 100)

(***************************************************************************)
(* Technology fingerprinting (index.ts 513-571)                            *)
(*                                                                         *)
(* A detector of TECH_SIGNATURES.headers is                                *)
(*   "value"     v => v                                                    *)
(*   "const"     () => label                                               *)
(*   "servedby"  v => v.includes("cache") ? label : v                      *)
(*   "via"       v => v.includes("cloudfront") ? "AWS CloudFront"          *)
(*                    : v.includes("varnish") ? "Varnish" : null           *)
(*   "xcache"    v => v.includes("cloudfront") ? label : null              *)
(***************************************************************************)
TECH_HEADERS == <<
    [name |-> "x-powered-by", kind |-> "value", label |-> <<>>],
    [name |-> "server", kind |-> "value", label |-> <<>>],
    [name |-> "x-aspnet-version", kind |-> "const", label |-> <<"A","S","P",".","N","E","T">>],
    [name |-> "x-aspnetmvc-version", kind |-> "const", label |-> <<"A","S","P",".","N","E","T"," ","M","V","C">>],
    [name |-> "x-drupal-cache", kind |-> "const", label |-> <<"D","r","u","p","a","l">>],
    [name |-> "x-generator", kind |-> "value", label |-> <<>>],
    [name |-> "x-shopify-stage", kind |-> "const", label |-> <<"S","h","o","p","i","f","y">>],
    [name |-> "x-vercel-id", kind |-> "const", label |-> <<"V","e","r","c","e","l">>],
    [name |-> "x-amz-cf-id", kind |-> "const", label |-> <<"A","W","S"," ","C","l","o","u","d","F","r","o","n","t">>],
    [name |-> "x-amz-cf-pop", kind |-> "const", label |-> <<"A","W","S"," ","C","l","o","u","d","F","r","o","n","t">>],
    [name |-> "x-amz-request-id", kind |-> "const", label |-> <<"A","W","S"," ","S","3">>],
    [name |-> "cf-ray", kind |-> "const", label |-> <<"C","l","o","u","d","f","l","a","r","e">>],
    [name |-> "x-github-request-id", kind |-> "const", label |-> <<"G","i","t","H","u","b">>],
    [name |-> "x-served-by", kind |-> "servedby", label |-> <<"V","a","r","n","i","s","h","/","F","a","s","t","l","y">>],
    [name |-> "via", kind |-> "via", label |-> <<>>],
    [name |-> "x-cache", kind |-> "xcache", label |-> <<"A","W","S"," ","C","l","o","u","d","F","r","o","n","t">>],
    [name |-> "x-fw-version", kind |-> "const", label |-> <<"F","l","y","w","h","e","e","l">>],
    [name |-> "x-kinsta-cache", kind |-> "const", label |-> <<"K","i","n","s","t","a">>],
    [name |-> "x-litespeed-cache", kind |-> "const", label |-> <<"L","i","t","e","S","p","e","e","d">>],
    [name |-> "x-sucuri-id", kind |-> "const", label |-> <<"S","u","c","u","r","i">>] >>

TECH_SERVER_PATTERNS == <<
    [pattern |-> <<"n","g","i","n","x">>, tech |-> <<"N","g","i","n","x">>],
    [pattern |-> <<"a","p","a","c","h","e">>, tech |-> <<"A","p","a","c","h","e">>],
    [pattern |-> <<"c","l","o","u","d","f","l","a","r","e">>, tech |-> <<"C","l","o","u","d","f","l","a","r","e">>],
    [pattern |-> <<"m","i","c","r","o","s","o","f","t","-","i","i","s">>, tech |-> <<"M","i","c","r","o","s","o","f","t"," ","I","I","S">>],
    [pattern |-> <<"l","i","t","e","s","p","e","e","d">>, tech |-> <<"L","i","t","e","S","p","e","e","d">>],
    [pattern |-> <<"o","p","e","n","r","e","s","t","y">>, tech |-> <<"O","p","e","n","R","e","s","t","y">>],
    [pattern |-> <<"c","a","d","d","y">>, tech |-> <<"C","a","d","d","y">>],
    [pattern |-> <<"g","u","n","i","c","o","r","n">>, tech |-> <<"G","u","n","i","c","o","r","n"," ","(","P","y","t","h","o","n",")">>],
    [pattern |-> <<"u","v","i","c","o","r","n">>, tech |-> <<"U","v","i","c","o","r","n"," ","(","P","y","t","h","o","n",")">>],
    [pattern |-> <<"e","x","p","r","e","s","s">>, tech |-> <<"E","x","p","r","e","s","s",".","j","s">>],
    [pattern |-> <<"k","e","s","t","r","e","l">>, tech |-> <<"K","e","s","t","r","e","l"," ","(",".","N","E","T",")">>] >>

TECH_COOKIES == <<
    [name |-> <<"P","H","P","S","E","S","S","I","D">>, tech |-> <<"P","H","P">>],
    [name |-> <<"J","S","E","S","S","I","O","N","I","D">>, tech |-> <<"J","a","v","a">>],
    [name |-> <<"A","S","P",".","N","E","T","_","S","e","s","s","i","o","n","I","d">>, tech |-> <<"A","S","P",".","N","E","T">>],
    [name |-> <<"_","r","a","i","l","s","_","s","e","s","s","i","o","n">>, tech |-> <<"R","u","b","y"," ","o","n"," ","R","a","i","l","s">>],
    [name |-> <<"l","a","r","a","v","e","l","_","s","e","s","s","i","o","n">>, tech |-> <<"L","a","r","a","v","e","l"," ","(","P","H","P",")">>],
    [name |-> <<"C","A","K","E","P","H","P">>, tech |-> <<"C","a","k","e","P","H","P">>],
    [name |-> <<"c","i","_","s","e","s","s","i","o","n">>, tech |-> <<"C","o","d","e","I","g","n","i","t","e","r"," ","(","P","H","P",")">>],
    [name |-> <<"s","y","m","f","o","n","y">>, tech |-> <<"S","y","m","f","o","n","y"," ","(","P","H","P",")">>],
    [name |-> <<"d","j","a","n","g","o">>, tech |-> <<"D","j","a","n","g","o"," ","(","P","y","t","h","o","n",")">>],
    [name |-> <<"e","x","p","r","e","s","s",".","s","i","d">>, tech |-> <<"E","x","p","r","e","s","s",".","j","s">>] >>

Detect(sig, v) ==
    CASE sig.kind = "value" -> v
      [] sig.kind = "const" -> sig.label
      [] sig.kind = "servedby" ->
            IF Includes(v, <<"c","a","c","h","e">>) THEN sig.label ELSE v
      [] sig.kind = "via" ->
            IF Includes(v, <<"c","l","o","u","d","f","r","o","n","t">>) THEN <<"A","W","S"," ","C","l","o","u","d","F","r","o","n","t">>
            ELSE IF Includes(v, <<"v","a","r","n","i","s","h">>) THEN <<"V","a","r","n","i","s","h">> ELSE Null
      [] sig.kind = "xcache" ->
            IF Includes(v, <<"c","l","o","u","d","f","r","o","n","t">>) THEN sig.label ELSE Null

\* response.headers.get(name)
HeaderGet(headers, name) == IF name \in DOMAIN headers THEN headers[name] ELSE Null

\* a push that does not look for the element first
PushNew_Always(technologies, tech) == Append(technologies, tech)
\* technologies.push(tech) unless it is there already
PushNew(technologies, tech) ==
    IF tech \in Range(technologies) THEN technologies ELSE Append(technologies, tech)

\* the loop over TECH_SIGNATURES.headers (lines 730-738 and 778-786)
RECURSIVE HeaderTechs(_, _, _)
HeaderTechs(headers, i, technologies) ==
    IF i > Len(TECH_HEADERS) THEN technologies
    ELSE LET v == HeaderGet(headers, TECH_HEADERS[i].name)
             tech == IF Truthy(v) THEN Detect(TECH_HEADERS[i], v) ELSE Null
         IN  HeaderTechs(headers, i + 1,
                 IF Truthy(tech) THEN PushNew(technologies, tech) ELSE technologies)

\* the loop over TECH_SIGNATURES.serverPatterns (lines 741-747)
RECURSIVE ServerTechs(_, _, _)
ServerTechs(server, i, technologies) ==
    IF i > Len(TECH_SERVER_PATTERNS) \/ ~Truthy(server) THEN technologies
    ELSE ServerTechs(server, i + 1,
             IF Includes(ToLowerCase(server), TECH_SERVER_PATTERNS[i].pattern)
             THEN PushNew(technologies, TECH_SERVER_PATTERNS[i].tech)
             ELSE technologies)

\* the loop over TECH_SIGNATURES.cookies (lines 750-755)
RECURSIVE CookieTechs(_, _, _)
CookieTechs(cookies, i, technologies) ==
    IF i > Len(TECH_COOKIES) THEN technologies
    ELSE CookieTechs(cookies, i + 1,
             IF Includes(cookies, TECH_COOKIES[i].name)
             THEN PushNew(technologies, TECH_COOKIES[i].tech)
             ELSE technologies)

(***************************************************************************)
(* isPrivateIP and resolveDNS (index.ts 27-37, 86-88, 675-704)             *)
(***************************************************************************)
StartsWith(s, pre) == Len(pre) <= Len(s) /\ SubSeq(s, 1, Len(pre)) = pre

\* the third pattern without its second octet: /^172\./
Matches172_AnySecondOctet(ip) == StartsWith(ip, <<"1","7","2",".">>)
\* /^172\.(1[6-9]|2[0-9]|3[0-1])\./
Matches172(ip) ==
    /\ StartsWith(ip, <<"1","7","2",".">>)
    /\ Len(ip) >= 7
    /\ \/ ip[5] = "1" /\ ip[6] \in {"6","7","8","9"}
       \/ ip[5] = "2" /\ ip[6] \in Digits
       \/ ip[5] = "3" /\ ip[6] \in {"0","1"}
    /\ ip[7] = "."

\* PRIVATE_IP_PATTERNS.some(pattern => pattern.test(ip))
isPrivateIP(ip) ==
    \/ StartsWith(ip, <<"1","2","7",".">>)
    \/ StartsWith(ip, <<"1","0",".">>)
    \/ Matches172(ip)
    \/ StartsWith(ip, <<"1","9","2",".","1","6","8",".">>)
    \/ StartsWith(ip, <<"1","6","9",".","2","5","4",".">>)
    \/ StartsWith(ip, <<"0",".">>)
    \/ StartsWith(ip, <<"2","2","4",".">>)
    \/ StartsWith(ip, <<"2","4","0",".">>)

TYPE_A == 1
TYPE_CNAME == 5

\* the loop over data.Answer (lines 686-697)
RECURSIVE ReadAnswers(_, _, _)
ReadAnswers(answer, i, acc) ==
    IF i > Len(answer) THEN acc
    ELSE ReadAnswers(answer, i + 1,
             IF answer[i].type = TYPE_A
             THEN IF ~isPrivateIP(answer[i].data)
                  THEN [acc EXCEPT !.ips = Append(acc.ips, answer[i].data)]
                  ELSE acc
             ELSE IF answer[i].type = TYPE_CNAME
             THEN [acc EXCEPT !.cname = answer[i].data]
             ELSE acc)

\* reply.ok = FALSE: the fetch or response.json() threw (the catch of line 701)
resolveDNS(reply) ==
    IF reply.ok THEN ReadAnswers(reply.Answer, 1, [ips |-> <<>>, cname |-> Null])
    ELSE [ips |-> <<>>, cname |-> Null]

(***************************************************************************)
(* checkHTTP: what it returns for a reply (index.ts 706-802)               *)
(***************************************************************************)
BodyLimit == 10000

\* the body kept; Null when response.text() threw
KeepBody(body) ==
    IF body = Null THEN Null
    ELSE IF Len(body) > BodyLimit THEN SubSeq(body, 1, BodyLimit) ELSE body

NullHttpData ==
    [httpStatus |-> NullStatus, httpsStatus |-> NullStatus, server |-> Null,
     technologies |-> <<>>, responseBody |-> Null]

\* lines 726-765
\* locals: the five variables of lines 713-717 as they are when the response
\* arrives
FromHttps(resp, locals) ==
    LET server == HeaderGet(resp.headers, "server")
        cookie == HeaderGet(resp.headers, "set-cookie")
        cookies == IF Truthy(cookie) THEN cookie ELSE <<>>
    IN  [locals EXCEPT
            !.httpsStatus = resp.status,
            !.server = server,
            !.technologies =
                CookieTechs(cookies, 1,
                    ServerTechs(server, 1, HeaderTechs(resp.headers, 1, @))),
            !.responseBody = IF resp.body = Null THEN @ ELSE KeepBody(resp.body)]

\* lines 774-795: the header table only, no server patterns and no cookies
FromHttp(resp, locals) ==
    [locals EXCEPT
        !.httpStatus = resp.status,
        !.server = HeaderGet(resp.headers, "server"),
        !.technologies = HeaderTechs(resp.headers, 1, @),
        !.responseBody = IF resp.body = Null THEN @ ELSE KeepBody(resp.body)]

(***************************************************************************)
(* Spec: one scan.  startScan inserts the scan row and invokes the edge    *)
(* function; the handler validates, marks the scan running, collects the   *)
(* candidates, runs one worker per candidate under the limiter, builds the *)
(* records, inserts them in batches and marks the scan completed; stopScan *)
(* may run while the hook is scanning.                                     *)
(*                                                                         *)
(* The candidate tables are cut down to one name each, the certificate     *)
(* log knows the name of the word list, and every upstream service answers *)
(* with one of a few replies.                                              *)
(***************************************************************************)
Dot == <<".">>

\* one entry of COMMON_SUBDOMAINS (line 114)
WordlistSample == << <<"a","p","i","-","v","2">> >>
\* one name generatePermutations("api", domain) makes: suffix "-v2"
PermutationSample == << <<"a","p","i","-","v","2">> >>

\* Set.prototype.add of each name, in order
RECURSIVE AddAll(_, _, _)
AddAll(set, names, i) ==
    IF i > Len(names) THEN set ELSE AddAll(PushNew(set, names[i]), names, i + 1)

\* queryCTLogs (lines 613-653); reply.names are the lines of the name_value fields
RECURSIVE KeepCTNames(_, _, _, _)
KeepCTNames(names, i, domain, acc) ==
    IF i > Len(names) THEN acc
    ELSE LET trimmed == ToLowerCase(names[i])
             keep == /\ trimmed # <<>>
                     /\ ~StartsWith(trimmed, <<"*">>)
                     /\ EndsWith(trimmed, ToLowerCase(domain))
                     /\ trimmed # ToLowerCase(domain)
         IN  KeepCTNames(names, i + 1, domain,
                 IF keep THEN PushNew(acc, trimmed) ELSE acc)

queryCTLogs(reply, domain) ==
    IF reply.ok THEN KeepCTNames(reply.names, 1, domain, <<>>) ELSE <<>>

WithDomain(prefixes, domain) == [i \in DOMAIN prefixes |-> prefixes[i] \o Dot \o domain]

\* lines 934-956, as Array.from(discoveredSubdomains)
Discovered(domain, options, ctNames) ==
    LET fromCT == IF options.ctLogs THEN AddAll(<<>>, ctNames, 1) ELSE <<>>
        fromWordlist == IF options.dnsBruteforce
                        THEN AddAll(fromCT, WithDomain(WordlistSample, domain), 1)
                        ELSE fromCT
    IN  AddAll(fromWordlist, WithDomain(PermutationSample, domain), 1)

\* getWaybackUrls (lines 656-673)
getWaybackUrls(reply) ==
    IF ~reply.ok \/ Len(reply.rows) <= 1 THEN <<>>
    ELSE [i \in 1..(Len(reply.rows) - 1) |-> reply.rows[i + 1][3]]

\* ---- the replies of the upstream services
ExampleCom == <<"e","x","a","m","p","l","e",".","c","o","m">>

RequestDomains == { ExampleCom, <<"1","9","2",".","1","6","8",".","1",".","1">>, <<"s","e","r","v","e","r",".","l","o","c","a","l">> }

AllOptions == [ctLogs : BOOLEAN, dnsBruteforce : BOOLEAN, httpProbe : BOOLEAN]

Requests ==
    {[wellFormed |-> FALSE, domain |-> <<>>,
      options |-> [ctLogs |-> TRUE, dnsBruteforce |-> TRUE, httpProbe |-> TRUE]]}
    \cup {[wellFormed |-> TRUE, domain |-> d, options |-> o] :
              d \in RequestDomains, o \in AllOptions}

CtReplies ==
    { [ok |-> FALSE, names |-> <<>>],
      [ok |-> TRUE, names |-> << <<"A","P","I","-","v","2",".","e","x","a","m","p","l","e",".","c","o","m">>, <<"*",".","e","x","a","m","p","l","e",".","c","o","m">>, <<"e","x","a","m","p","l","e",".","c","o","m">>, <<"n","o","t","e","x","a","m","p","l","e",".","c","o","m">> >>] }

A(ip) == [type |-> TYPE_A, data |-> ip]
CNAME(name) == [type |-> TYPE_CNAME, data |-> name]

DnsFailed == [ok |-> FALSE, Answer |-> <<>>]

DnsReplies ==
    { DnsFailed,
      [ok |-> TRUE, Answer |-> << A(<<"9","3",".","1","8","4",".","2","1","6",".","3","4">>) >>],
      [ok |-> TRUE, Answer |-> << A(<<"1","0",".","0",".","0",".","5">>) >>],
      [ok |-> TRUE, Answer |-> << CNAME(<<"a","p","p",".","h","e","r","o","k","u","a","p","p",".","c","o","m">>), A(<<"1","9","2",".","1","6","8",".","1",".","1","0">>) >>] }

Headers(server, cookie) ==
    [h \in {"server", "set-cookie"} |-> IF h = "server" THEN server ELSE cookie]

FetchFailed == [ok |-> FALSE, status |-> 0, headers |-> Headers(Null, Null), body |-> Null]

HttpsReplies ==
    { FetchFailed,
      [ok |-> TRUE, status |-> 200, headers |-> Headers(<<"n","g","i","n","x">>, Null), body |-> <<"n","o","-","s","u","c","h","-","a","p","p">>],
      [ok |-> TRUE, status |-> 404, headers |-> Headers(Null, Null), body |-> Null],
      [ok |-> TRUE, status |-> 503, headers |-> Headers(Null, Null), body |-> Null] }

HttpReplies ==
    { FetchFailed,
      [ok |-> TRUE, status |-> 200, headers |-> Headers(<<"n","g","i","n","x">>, Null), body |-> <<>>] }

WaybackReplies ==
    { [ok |-> FALSE, rows |-> <<>>],
      [ok |-> TRUE, rows |-> << <<"urlkey", "timestamp", "original">>,
                                <<"com,example)/", "2020", "http://example.com/">> >>] }

\* ---- the handler's pure steps
\* the validation test of line 918 skipped
Rejected_Never(domain) == FALSE
\* line 918: !domainValidation.valid
Rejected(domain) == ~isValidDomain(domain).valid

\* the drop test without its CNAME half
IsDropped_IgnoringCname(res) == Len(res.ips) = 0
\* line 978: ips.length === 0 && !cname
IsDropped(res) == Len(res.ips) = 0 /\ ~Truthy(res.cname)

\* lines 1004-1007
IsActive(h) ==
    \/ h.httpStatus = 200
    \/ h.httpsStatus = 200
    \/ (h.httpsStatus # NullStatus /\ h.httpsStatus < 500)

DroppedResult == [dropped |-> TRUE]

\* lines 1009-1053: what the worker of candidate c returns
WorkerResult(c, res, data, waybackUrls) ==
    LET subdomain == candidates[c]
        cloudProvider == detectCloudProvider(subdomain, res.cname)
        anomalyData == detectAnomaly(subdomain)
        takeoverData == checkTakeoverVulnerability(res.cname, data.responseBody,
                                                   data.httpStatus, data.httpsStatus)
    IN  [dropped |-> FALSE,
         subdomain |-> subdomain,
         ips |-> res.ips,
         cname |-> res.cname,
         httpData |-> data,
         isActive |-> IsActive(data),
         cloudProvider |-> cloudProvider,
         anomalyData |-> anomalyData,
         takeoverData |-> takeoverData,
         riskScore |-> calculateRiskScore(
             [isAnomaly |-> anomalyData.isAnomaly,
              takeoverVulnerable |-> takeoverData.vulnerable,
              takeoverVerified |-> takeoverData.verified,
              httpStatus |-> data.httpStatus,
              httpsStatus |-> data.httpsStatus,
              cloudProvider |-> cloudProvider,
              server |-> data.server,
              technologies |-> data.technologies,
              exposedPorts |-> <<>>]),
         waybackUrls |-> waybackUrls]

\* lines 1069-1090: the row pushed for one result (the timestamps left out)
Row(r) ==
    [name |-> r.subdomain,
     status |-> IF r.isActive THEN "active" ELSE "inactive",
     ip_addresses |-> r.ips,
     http_status |-> r.httpData.httpStatus,
     https_status |-> r.httpData.httpsStatus,
     technologies |-> r.httpData.technologies,
     server |-> r.httpData.server,
     cloud_provider |-> r.cloudProvider,
     risk_score |-> r.riskScore,
     is_anomaly |-> r.anomalyData.isAnomaly,
     anomaly_reason |-> r.anomalyData.reason,
     takeover_vulnerable |-> r.takeoverData.vulnerable,
     takeover_type |-> r.takeoverData.type,
     takeover_verified |-> r.takeoverData.verified,
     cname_record |-> r.cname,
     wayback_urls |-> r.waybackUrls]

NoCounts == [active |-> 0, anomalies |-> 0, cloud |-> 0, takeover |-> 0]

\* the loop of lines 1061-1091 over processedResults
Aggregate(processed) ==
    LET NotNull(r) == ~r.dropped
        kept == SelectSeq(processed, NotNull)
        Count(Test(_)) == Cardinality({i \in DOMAIN kept : Test(kept[i])})
        IsActiveResult(r) == r.isActive
        IsCloudResult(r) == r.cloudProvider # NoProvider
        IsAnomalyResult(r) == r.anomalyData.isAnomaly
        IsTakeoverResult(r) == r.takeoverData.vulnerable
    IN  [results |-> [i \in DOMAIN kept |-> Row(kept[i])],
         counts |-> [active |-> Count(IsActiveResult),
                     cloud |-> Count(IsCloudResult),
                     anomalies |-> Count(IsAnomalyResult),
                     takeover |-> Count(IsTakeoverResult)]]

batchSize == 50

\* the stats of the response and the columns of the completed update
Summary(res, cnt) ==
    [total |-> Len(res), active |-> cnt.active, anomalies |-> cnt.anomalies,
     cloudAssets |-> cnt.cloud, takeoverVulnerable |-> cnt.takeover]

NoSummary == [total |-> 0, active |-> 0, anomalies |-> 0,
              cloudAssets |-> 0, takeoverVulnerable |-> 0]

NoResponse == [status |-> 0, error |-> Undefined, stats |-> NoSummary]

\* the limit() calls of lines 970-971, one after the other, for candidates c..n
RECURSIVE CallAll(_, _, _, _)
CallAll(L, c, n, k) ==
    IF c > n THEN L ELSE CallAll(Called(L, c, k, "dns"), c + 1, n, k)

Candidates == DOMAIN candidates

InitScan ==
    /\ cpc = "idle" /\ isScanning = FALSE /\ currentScanId = 0
    /\ scanStatus = "none" /\ scanRow = NoSummary /\ subRows = <<>>
    /\ hpc = "idle" /\ request \in Requests /\ response = NoResponse
    /\ candidates = <<>> /\ results = <<>> /\ counts = NoCounts
    /\ batchStart = 0 /\ issued = {}
    /\ dnsReply = <<>> /\ probe = <<>> /\ httpData = <<>> /\ result = <<>>
    /\ concurrency = 0 /\ running = 0 /\ queue = <<>>
    /\ wpc = <<>> /\ outcome = <<>>
    /\ DomainUnused
    /\ RateUnused
    /\ PureUnused

\* ---- the hook (part_001 16-123)
\* startScan up to the invoke of the edge function: the row is inserted as
\* pending, currentScanId is set, the request is on its way
StartScan ==
    /\ cpc = "idle"
    /\ cpc' = "invoked"
    /\ isScanning' = TRUE
    /\ currentScanId' = 1
    /\ scanStatus' = "pending"
    /\ hpc' = "received"
    /\ UNCHANGED <<scanRow, subRows, request, response, candidates, results, counts,
                   batchStart, issued, workerVars, limiterVars, domainVars, rateVars, pureVars>>

\* startScan after the invoke has returned: the finally block
StartScanEnds ==
    /\ cpc = "invoked"
    /\ hpc = "returned"
    /\ cpc' = "ended"
    /\ isScanning' = FALSE
    /\ UNCHANGED <<currentScanId, dbVars, handlerVars, workerVars, limiterVars,
                   domainVars, rateVars, pureVars>>

\* stopScan, from the Stop button shown while isScanning (Index.tsx 176-195)
StopScan ==
    /\ isScanning
    /\ currentScanId # 0
    /\ scanStatus' = "failed"
    /\ isScanning' = FALSE
    /\ currentScanId' = 0
    /\ UNCHANGED <<cpc, scanRow, subRows, handlerVars, workerVars, limiterVars,
                   domainVars, rateVars, pureVars>>

\* ---- the handler (index.ts 902-1148)
\* req.json() throws: the catch of line 1138
HandlerThrows ==
    /\ hpc = "received"
    /\ ~request.wellFormed
    /\ response' = [status |-> 500, error |-> "Scan failed. Please try again later.",
                    stats |-> NoSummary]
    /\ hpc' = "returned"
    /\ UNCHANGED <<request, candidates, results, counts, batchStart, issued,
                   clientVars, dbVars, workerVars, limiterVars, domainVars, rateVars, pureVars>>

\* lines 917-924
HandlerRejects ==
    /\ hpc = "received"
    /\ request.wellFormed
    /\ Rejected(request.domain)
    /\ response' = [status |-> 400, error |-> isValidDomain(request.domain).error,
                    stats |-> NoSummary]
    /\ hpc' = "returned"
    /\ UNCHANGED <<request, candidates, results, counts, batchStart, issued,
                   clientVars, dbVars, workerVars, limiterVars, domainVars, rateVars, pureVars>>

\* lines 926-932: the update to running is sent
HandlerAccepts ==
    /\ hpc = "received"
    /\ request.wellFormed
    /\ ~Rejected(request.domain)
    /\ hpc' = "markRunning"
    /\ UNCHANGED <<request, response, candidates, results, counts, batchStart, issued,
                   clientVars, dbVars, workerVars, limiterVars, domainVars, rateVars, pureVars>>

\* lines 966-1055: the limiter is made and limit() is called for every
\* candidate; a task that is admitted runs up to the fetch of resolveDNS
Dispatch(names) ==
    LET n == Len(names)
        k == Min(MAX_CONCURRENT, MaxPool)
        L == CallAll([running |-> 0, queue |-> <<>>, wpc |-> [c \in 1..n |-> "idle"]],
                     1, n, k)
    IN  /\ candidates' = names
        /\ concurrency' = k
        /\ SetLimiter(L)
        /\ issued' = issued \cup {<<"dns", c>> : c \in {x \in 1..n : L.wpc[x] = "dns"}}
        /\ dnsReply' = [c \in 1..n |-> DnsFailed]
        /\ probe' = [c \in 1..n |-> [pc |-> "none", data |-> NullHttpData]]
        /\ httpData' = [c \in 1..n |-> NullHttpData]
        /\ result' = [c \in 1..n |-> DroppedResult]
        /\ hpc' = "workers"
        /\ UNCHANGED <<request, response, results, counts, batchStart, outcome>>

\* the update to running is applied; then line 937: the CT query is sent, or
\* the handler goes straight on to the candidates
HandlerMarksRunning ==
    /\ hpc = "markRunning"
    /\ scanStatus' = "running"
    /\ IF request.options.ctLogs
       THEN /\ hpc' = "ct"
            /\ issued' = issued \cup {<<"ct", 0>>}
            /\ UNCHANGED <<request, response, candidates, results, counts, batchStart,
                           workerVars, limiterVars>>
       ELSE Dispatch(Discovered(request.domain, request.options, <<>>))
    /\ UNCHANGED <<clientVars, scanRow, subRows, domainVars, rateVars, pureVars>>

\* a handler that lets the failure of the CT query reach its catch (line 1138)
HandlerGetsCT_Rethrows ==
    /\ hpc = "ct"
    /\ \E reply \in CtReplies :
          IF reply.ok
          THEN Dispatch(Discovered(request.domain, request.options,
                                   queryCTLogs(reply, request.domain)))
          ELSE /\ response' = [status |-> 500,
                               error |-> "Scan failed. Please try again later.",
                               stats |-> NoSummary]
               /\ hpc' = "returned"
               /\ UNCHANGED <<request, candidates, results, counts, batchStart, issued,
                              workerVars, limiterVars>>
    /\ UNCHANGED <<clientVars, dbVars, domainVars, rateVars, pureVars>>
\* the CT query settles
HandlerGetsCT ==
    /\ hpc = "ct"
    /\ \E reply \in CtReplies :
          Dispatch(Discovered(request.domain, request.options,
                              queryCTLogs(reply, request.domain)))
    /\ UNCHANGED <<clientVars, dbVars, domainVars, rateVars, pureVars>>

\* ---- the worker of a candidate (index.ts 971-1054) and its checkHTTP call
\* Inside the handler nothing calls limit() after line 971, and a fetch reply
\* or a timer is a task of its own, so what follows a worker's return runs
\* before any other event: the finally block of its limit() call, and the
\* continuation of the task it wakes, up to the fetch of resolveDNS.
WorkerReturns(c, r, sent) ==
    LET a == Released(Limiter, c)
        b == IF Len(queue) > 0 THEN Resumed(a, Head(queue), concurrency, "dns") ELSE a
    IN  /\ result' = [result EXCEPT ![c] = r]
        /\ SetLimiter(b)
        /\ issued' = issued \cup sent \cup
              {<<"dns", t>> : t \in {x \in Candidates : b.wpc[x] = "dns" /\ wpc[x] # "dns"}}

\* what follows the probe (lines 1004-1053) up to the next await
AfterProbe(c, data) ==
    /\ httpData' = [httpData EXCEPT ![c] = data]
    /\ IF IsActive(data)
       THEN /\ issued' = issued \cup {<<"wayback", c>>}
            /\ wpc' = [wpc EXCEPT ![c] = "wayback"]
            /\ UNCHANGED <<running, queue, result>>
       ELSE WorkerReturns(c, WorkerResult(c, resolveDNS(dnsReply[c]), data, <<>>), {})

\* resolveDNS settles (lines 975-1002)
WorkerGetsDNS(c) ==
    /\ wpc[c] = "dns"
    /\ \E reply \in DnsReplies :
          /\ dnsReply' = [dnsReply EXCEPT ![c] = reply]
          /\ IF IsDropped(resolveDNS(reply))
             THEN /\ WorkerReturns(c, DroppedResult, {})
                  /\ UNCHANGED <<probe, httpData>>
             ELSE IF request.options.httpProbe
             THEN \* checkHTTP starts: the HTTPS request goes through rateLimitedFetch
                  /\ probe' = [probe EXCEPT ![c].pc = "https"]
                  /\ issued' = issued \cup {<<"https", c>>}
                  /\ wpc' = [wpc EXCEPT ![c] = "race"]
                  /\ UNCHANGED <<running, queue, httpData, result>>
             ELSE \* line 991: no probe, httpData stays as initialised
                  /\ WorkerReturns(c, WorkerResult(c, resolveDNS(reply), NullHttpData,
                                                   <<>>), {})
                  /\ UNCHANGED <<probe, httpData>>
    /\ UNCHANGED <<concurrency, outcome, clientVars, dbVars, hpc, request, response,
                   candidates, results, counts, batchStart, domainVars, rateVars, pureVars>>

\* a probe that also falls back to HTTP when the HTTPS status is 400 or more
ProbeGetsHttps_OnErrorStatus(c) ==
    /\ probe[c].pc = "https"
    /\ \E reply \in HttpsReplies :
          IF reply.ok /\ reply.status < 400
          THEN /\ probe' = [probe EXCEPT ![c] =
                              [pc |-> "settled", data |-> FromHttps(reply, probe[c].data)]]
               /\ UNCHANGED issued
          ELSE /\ probe' = [probe EXCEPT ![c] =
                              [pc |-> "http",
                               data |-> IF reply.ok THEN FromHttps(reply, probe[c].data)
                                        ELSE probe[c].data]]
               /\ issued' = issued \cup {<<"http", c>>}
    /\ UNCHANGED <<limiterVars, clientVars, dbVars, hpc, request, response, candidates,
                   results, counts, batchStart, dnsReply, httpData, result, domainVars, rateVars, pureVars>>
\* the HTTPS request of checkHTTP settles: a response is read (lines 726-765),
\* a failure sends the HTTP request (line 769)
ProbeGetsHttps(c) ==
    /\ probe[c].pc = "https"
    /\ \E reply \in HttpsReplies :
          IF reply.ok
          THEN /\ probe' = [probe EXCEPT ![c] =
                              [pc |-> "settled", data |-> FromHttps(reply, probe[c].data)]]
               /\ UNCHANGED issued
          ELSE /\ probe' = [probe EXCEPT ![c].pc = "http"]
               /\ issued' = issued \cup {<<"http", c>>}
    /\ UNCHANGED <<limiterVars, clientVars, dbVars, hpc, request, response, candidates,
                   results, counts, batchStart, dnsReply, httpData, result, domainVars, rateVars, pureVars>>

\* the HTTP request of checkHTTP settles (lines 774-798)
ProbeGetsHttp(c) ==
    /\ probe[c].pc = "http"
    /\ \E reply \in HttpReplies :
          probe' = [probe EXCEPT ![c] =
                      [pc |-> "settled",
                       data |-> IF reply.ok THEN FromHttp(reply, probe[c].data)
                                ELSE probe[c].data]]
    /\ UNCHANGED <<limiterVars, clientVars, dbVars, handlerVars, dnsReply, httpData,
                   result, domainVars, rateVars, pureVars>>

\* Promise.race (lines 993-998) is won by checkHTTP
WorkerGetsProbe(c) ==
    /\ wpc[c] = "race"
    /\ probe[c].pc = "settled"
    /\ AfterProbe(c, probe[c].data)
    /\ UNCHANGED <<concurrency, outcome, clientVars, dbVars, hpc, request, response,
                   candidates, results, counts, batchStart, dnsReply, probe, domainVars, rateVars, pureVars>>

\* a timeout that gives the candidate up, as line 980 does for a name that
\* does not resolve
WorkerTimesOut_Drops(c) ==
    /\ wpc[c] = "race"
    /\ probe[c].pc \in {"https", "http"}
    /\ WorkerReturns(c, DroppedResult, {})
    /\ UNCHANGED <<concurrency, outcome, clientVars, dbVars, hpc, request, response,
                   candidates, results, counts, batchStart, dnsReply, probe, httpData,
                   domainVars, rateVars, pureVars>>
\* Promise.race is won by the 10 s timer: the catch of line 999 leaves httpData
\* as initialised; nothing stops checkHTTP
WorkerTimesOut(c) ==
    /\ wpc[c] = "race"
    /\ probe[c].pc \in {"https", "http"}
    /\ AfterProbe(c, NullHttpData)
    /\ UNCHANGED <<concurrency, outcome, clientVars, dbVars, hpc, request, response,
                   candidates, results, counts, batchStart, dnsReply, probe, domainVars, rateVars, pureVars>>

\* getWaybackUrls settles (line 1026); the worker returns its result
WorkerGetsWayback(c) ==
    /\ wpc[c] = "wayback"
    /\ \E reply \in WaybackReplies :
          WorkerReturns(c, WorkerResult(c, resolveDNS(dnsReply[c]), httpData[c],
                                        getWaybackUrls(reply)), {})
    /\ UNCHANGED <<concurrency, outcome, clientVars, dbVars, hpc, request, response,
                   candidates, results, counts, batchStart, dnsReply, probe, httpData,
                   domainVars, rateVars, pureVars>>

\* a handler that builds and stores the records as soon as one task is done
HandlerAggregates_NoJoin ==
    /\ hpc = "workers"
    /\ \E c \in Candidates : wpc[c] = "done"
    /\ LET agg == Aggregate([c \in Candidates |-> result[c]])
       IN  /\ results' = agg.results
           /\ counts' = agg.counts
           /\ hpc' = IF Len(agg.results) > 0 THEN "insert" ELSE "complete"
    /\ batchStart' = 0
    /\ UNCHANGED <<request, response, candidates, issued, clientVars, dbVars,
                   workerVars, limiterVars, domainVars, rateVars, pureVars>>

\* Promise.all resolves (line 1058); lines 1061-1093; the first batch insert
\* is sent if there is a record
HandlerAggregates ==
    /\ hpc = "workers"
    /\ \A c \in Candidates : wpc[c] = "done"
    /\ LET agg == Aggregate([c \in Candidates |-> result[c]])
       IN  /\ results' = agg.results
           /\ counts' = agg.counts
           /\ hpc' = IF Len(agg.results) > 0 THEN "insert" ELSE "complete"
    /\ batchStart' = 0
    /\ UNCHANGED <<request, response, candidates, issued, clientVars, dbVars,
                   workerVars, limiterVars, domainVars, rateVars, pureVars>>

\* a loop that gives up at the first insert that reports an error
HandlerInsertsBatch_StopsOnError ==
    /\ hpc = "insert"
    /\ LET last == Min(batchStart + batchSize, Len(results))
           batch == SubSeq(results, batchStart + 1, last)
       IN  \E ok \in BOOLEAN :
              /\ subRows' = IF ok THEN subRows \o batch ELSE subRows
              /\ batchStart' = IF ok THEN batchStart + batchSize ELSE batchStart
              /\ hpc' = IF ok /\ batchStart + batchSize < Len(results)
                        THEN "insert" ELSE "complete"
    /\ UNCHANGED <<request, response, candidates, results, counts, issued, clientVars,
                   scanStatus, scanRow, workerVars, limiterVars, domainVars, rateVars, pureVars>>
\* one batch insert settles (lines 1097-1104): the rows are stored, or the
\* insert reports an error and stores none; the loop goes on either way
HandlerInsertsBatch ==
    /\ hpc = "insert"
    /\ LET last == Min(batchStart + batchSize, Len(results))
           batch == SubSeq(results, batchStart + 1, last)
       IN  /\ \E ok \in BOOLEAN :
                subRows' = IF ok THEN subRows \o batch ELSE subRows
           /\ batchStart' = batchStart + batchSize
           /\ hpc' = IF batchStart + batchSize < Len(results) THEN "insert" ELSE "complete"
    /\ UNCHANGED <<request, response, candidates, results, counts, issued, clientVars,
                   scanStatus, scanRow, workerVars, limiterVars, domainVars, rateVars, pureVars>>

\* the update to completed settles (lines 1107-1122: its error is only
\* logged) and the response is returned (lines 1124-1137)
HandlerCompletes ==
    /\ hpc = "complete"
    /\ \E ok \in BOOLEAN :
          IF ok
          THEN /\ scanStatus' = "completed"
               /\ scanRow' = Summary(results, counts)
          ELSE UNCHANGED <<scanStatus, scanRow>>
    /\ response' = [status |-> 200, error |-> Undefined,
                    stats |-> Summary(results, counts)]
    /\ hpc' = "returned"
    /\ UNCHANGED <<request, candidates, results, counts, batchStart, issued, clientVars,
                   subRows, workerVars, limiterVars, domainVars, rateVars, pureVars>>

Next ==
    \/ StartScan
    \/ StartScanEnds
    \/ StopScan
    \/ HandlerThrows
    \/ HandlerRejects
    \/ HandlerAccepts
    \/ HandlerMarksRunning
    \/ HandlerGetsCT
    \/ \E c \in Candidates : WorkerGetsDNS(c)
    \/ \E c \in Candidates : ProbeGetsHttps(c)
    \/ \E c \in Candidates : ProbeGetsHttp(c)
    \/ \E c \in Candidates : WorkerGetsProbe(c)
    \/ \E c \in Candidates : WorkerTimesOut(c)
    \/ \E c \in Candidates : WorkerGetsWayback(c)
    \/ HandlerAggregates
    \/ HandlerInsertsBatch
    \/ HandlerCompletes

Spec == InitScan /\ [][Next]_vars

(***************************************************************************)
(* Claims about one scan                                                   *)
(***************************************************************************)
\* the candidates whose checkHTTP call has started and has a request unsettled
ProbesInFlight == {c \in Candidates : probe[c].pc \in {"https", "http"}}

\* C2: at no point of a scan are more HTTP probes in flight than the
\* limiter's concurrency K, a probe being in flight from the start of
\* checkHTTP until its HTTPS/HTTP requests have settled; runs in which a
\* probe hits the timeout and its candidate's slot is released included.
C2_AtMostKProbesInFlight == Cardinality(ProbesInFlight) <= concurrency

StatusSteps ==
    { <<"none", "pending">>, <<"pending", "running">>, <<"pending", "failed">>,
      <<"running", "completed">>, <<"running", "failed">> }

\* C3: the persisted status only changes along pending -> running ->
\* (completed | failed) (a stop of a pending scan is let through as well), and
\* a completed or failed scan never changes status again, stopScan included.
C3_StatusOnlyForward ==
    [][scanStatus' # scanStatus => <<scanStatus, scanStatus'>> \in StatusSteps]_vars

\* C4: whenever the handler has returned a response (200, 400 or 500) the
\* scan has a terminal status, completed or failed.
C4_ReturnedScanIsTerminal ==
    hpc = "returned" => scanStatus \in {"completed", "failed"}

\* a candidate that resolved to no public address and no CNAME
NoRecords(c) ==
    LET res == resolveDNS(dnsReply[c])
    IN  Len(res.ips) = 0 /\ res.cname = Null

\* Promise.all has resolved and the handler has built its results
Aggregated ==
    \/ hpc \in {"insert", "complete"}
    \/ hpc = "returned" /\ response.status = 200

RecordsOf(c) == {i \in DOMAIN results : results[i].name = candidates[c]}

\* C5: of N candidates of which M resolve to no public address and no CNAME
\* the handler builds exactly N - M records and reports total = N - M: none
\* for a dropped candidate, exactly one for every other candidate, whatever
\* its probe did.
C5_RecordsAreNMinusM ==
    Aggregated =>
        LET N == Len(candidates)
            M == Cardinality({c \in Candidates : NoRecords(c)})
        IN  /\ Len(results) = N - M
            /\ \A c \in Candidates :
                  Cardinality(RecordsOf(c)) = IF NoRecords(c) THEN 0 ELSE 1
            /\ hpc = "returned" => response.stats.total = N - M

\* two candidates, one dropped, the other kept although its probe timed out
C5_Witness ==
    /\ hpc = "returned" /\ response.status = 200
    /\ Len(candidates) = 2
    /\ Cardinality({c \in Candidates : NoRecords(c)}) = 1
    /\ response.stats.total = 1
    /\ \E c \in Candidates : ~NoRecords(c) /\ probe[c].pc \in {"https", "http"}

CountRows(rows, Test(_)) == Cardinality({i \in DOMAIN rows : Test(rows[i])})

\* C6: once the scan is marked completed, the summary columns of its row
\* equal the counts folded over the subdomain rows stored for it, whatever
\* the batch inserts did.
C6_SummaryMatchesStoredRows ==
    scanStatus = "completed" =>
        LET IsActiveRow(r) == r.status = "active"
            IsAnomalyRow(r) == r.is_anomaly
            IsCloudRow(r) == r.cloud_provider # NoProvider
            IsTakeoverRow(r) == r.takeover_vulnerable
        IN  /\ scanRow.total = Len(subRows)
            /\ scanRow.active = CountRows(subRows, IsActiveRow)
            /\ scanRow.anomalies = CountRows(subRows, IsAnomalyRow)
            /\ scanRow.cloudAssets = CountRows(subRows, IsCloudRow)
            /\ scanRow.takeoverVulnerable = CountRows(subRows, IsTakeoverRow)

\* a DNS answer that holds addresses, every one of them private or reserved
OnlyPrivateAddresses(reply) ==
    /\ reply.ok
    /\ \E i \in DOMAIN reply.Answer : reply.Answer[i].type = TYPE_A
    /\ \A i \in DOMAIN reply.Answer :
          reply.Answer[i].type = TYPE_A => isPrivateIP(reply.Answer[i].data)

\* C8: no HTTPS or HTTP request is sent to a candidate whose DNS answer held
\* only private/reserved addresses (its filtered public-IP set is empty).
C8_NoProbeOfPrivateOnly ==
    \A c \in Candidates :
        OnlyPrivateAddresses(dnsReply[c]) =>
            /\ Len(resolveDNS(dnsReply[c]).ips) = 0
            /\ <<"https", c>> \notin issued
            /\ <<"http", c>> \notin issued

\* C9: when isValidDomain rejects the target domain no CT, DNS, HTTP or
\* archive request is ever issued and no subdomain record is written, and the
\* response the handler returns is a 400 that carries the rejection reason.
C9_RejectedDomainDoesNothing ==
    (request.wellFormed /\ ~isValidDomain(request.domain).valid) =>
        /\ issued = {}
        /\ subRows = <<>>
        /\ hpc \notin {"markRunning", "ct", "workers", "insert", "complete"}
        /\ hpc = "returned" =>
              /\ response.status = 400
              /\ response.error = isValidDomain(request.domain).error
              /\ response.error \notin {Undefined, ""}

\* the handler has answered a request for a forbidden domain
C9_Witness ==
    /\ request.wellFormed
    /\ ~isValidDomain(request.domain).valid
    /\ hpc = "returned"
    /\ response.status = 400

(***************************************************************************)
(* rateLimitedFetch (index.ts 46-49, 573-588)                              *)
(*                                                                         *)
(* SpecRate: calls of rateLimitedFetch made at any time by callers that    *)
(* share the module's rateLimiter map: the two requests of one checkHTTP,  *)
(* the workers of one scan, the handlers of scans served by one instance.  *)
(* Time is counted in steps of half the interval.  A call is               *)
(*   "idle"      not made yet                                              *)
(*   "sleeping"  waiting for the timer of line 583                         *)
(*   "fetching"  past line 587: the request has started                    *)
(***************************************************************************)
RATE_LIMIT_MS == 100
MaxClock == 6
MaxCalls == 3

Quantum == RATE_LIMIT_MS \div 2

Hosts == {"www.example.com", "dev-api.example.com"}

Calls == DOMAIN calls

\* line 579: rateLimiter.get(domain) || 0
LastRequest(domain) ==
    IF domain \in DOMAIN rateLimiter THEN rateLimiter[domain] ELSE 0

\* line 586: rateLimiter.set(domain, t)
Set(domain, t) ==
    [h \in DOMAIN rateLimiter \cup {domain} |->
        IF h = domain THEN t ELSE rateLimiter[h]]

\* line 582
MustSleep(timeSince) == timeSince < RATE_LIMIT_MS

NotCalled == [pc |-> "idle", domain |-> "", wakeAt |-> 0, at |-> 0]

\* The clock starts one interval after 0, so that a host without an entry
\* (read as 0 by line 579) is not throttled, as with a clock of epoch time.
InitRate ==
    /\ now = RATE_LIMIT_MS
    /\ rateLimiter = <<>>
    /\ calls = [p \in 1..MaxCalls |-> NotCalled]
    /\ DomainUnused
    /\ LimiterUnused
    /\ PureUnused
    /\ ScanUnused

\* lines 579-584, and lines 586-587 when there is nothing to wait for
CallFetch(p, domain) ==
    /\ calls[p].pc = "idle"
    /\ \A q \in Calls : q < p => calls[q].pc # "idle"
    /\ LET timeSince == now - LastRequest(domain)
       IN  IF MustSleep(timeSince)
           THEN /\ calls' = [calls EXCEPT ![p] =
                                [pc |-> "sleeping", domain |-> domain,
                                 wakeAt |-> now + (RATE_LIMIT_MS - timeSince), at |-> 0]]
                /\ UNCHANGED rateLimiter
           ELSE /\ rateLimiter' = Set(domain, now)
                /\ calls' = [calls EXCEPT ![p] =
                                [pc |-> "fetching", domain |-> domain,
                                 wakeAt |-> 0, at |-> now]]
    /\ UNCHANGED <<now, domainVars, limiterVars, pureVars, scanVars>>

\* the timer of line 583 fires, on time or late: lines 586-587
TimerFires(p) ==
    /\ calls[p].pc = "sleeping"
    /\ now >= calls[p].wakeAt
    /\ rateLimiter' = Set(calls[p].domain, now)
    /\ calls' = [calls EXCEPT ![p].pc = "fetching", ![p].at = now]
    /\ UNCHANGED <<now, domainVars, limiterVars, pureVars, scanVars>>

\* time passes
Tick ==
    /\ now < MaxClock * Quantum
    /\ now' = now + Quantum
    /\ UNCHANGED <<rateLimiter, calls, domainVars, limiterVars, pureVars, scanVars>>

NextRate ==
    \/ \E p \in Calls : \E domain \in Hosts : CallFetch(p, domain)
    \/ \E p \in Calls : TimerFires(p)
    \/ Tick

SpecRate == InitRate /\ [][NextRate]_vars

Distance(a, b) == IF a >= b THEN a - b ELSE b - a

\* C7: any two requests issued through rateLimitedFetch for the same host
\* start at least RATE_LIMIT_MS apart, however the callers that share the
\* rateLimiter map interleave.
C7_SameHostSpaced ==
    \A p, q \in Calls :
        (/\ p # q
         /\ calls[p].pc = "fetching" /\ calls[q].pc = "fetching"
         /\ calls[p].domain = calls[q].domain)
            => Distance(calls[p].at, calls[q].at) >= RATE_LIMIT_MS

(***************************************************************************)
(* isPrivateIP applied to dotted quads (index.ts 27-37, 86-88)             *)
(*                                                                         *)
(* SpecIP: an address is four octets; what resolveDNS hands to isPrivateIP *)
(* is its decimal dotted form, as the DNS answer carries it.               *)
(***************************************************************************)
DigitChars == <<"0","1","2","3","4","5","6","7","8","9">>

\* the decimal digits of a natural number
RECURSIVE ToDecimal(_)
ToDecimal(n) ==
    IF n < 10 THEN <<DigitChars[n + 1]>>
    ELSE ToDecimal(n \div 10) \o <<DigitChars[(n % 10) + 1]>>

DottedQuad(o) ==
    ToDecimal(o[1]) \o <<".">> \o ToDecimal(o[2]) \o <<".">>
        \o ToDecimal(o[3]) \o <<".">> \o ToDecimal(o[4])

\* every first and second octet; the patterns read nothing behind them
Addresses == (0..255) \X (0..255) \X {0, 168} \X {1}

InitIP ==
    /\ arg \in Addresses
    /\ ret = [done |-> FALSE, value |-> FALSE]
    /\ DomainUnused
    /\ LimiterUnused
    /\ RateUnused
    /\ ScanUnused

\* line 689: isPrivateIP(answer.data)
ApplyIsPrivateIP ==
    /\ ~ret.done
    /\ ret' = [done |-> TRUE, value |-> isPrivateIP(DottedQuad(arg))]
    /\ UNCHANGED <<arg, domainVars, limiterVars, rateVars, scanVars>>

NextIP == ApplyIsPrivateIP

SpecIP == InitIP /\ [][NextIP]_vars

\* the ranges 127/8, 10/8, 172.16/12, 192.168/16, 169.254/16, 0/8, 224/8, 240/8
InListedRanges(o) ==
    \/ o[1] \in {127, 10, 0, 224, 240}
    \/ o[1] = 172 /\ o[2] >= 16 /\ o[2] <= 31
    \/ o[1] = 192 /\ o[2] = 168
    \/ o[1] = 169 /\ o[2] = 254

\* C12: isPrivateIP is true for every dotted quad in 127/8, 10/8, 172.16/12,
\* 192.168/16, 169.254/16, 0/8, 224/8 and 240/8, and false for every dotted
\* quad outside them.
C12_PrivateIffInListedRanges ==
    ret.done => (ret.value <=> InListedRanges(arg))

\* 172.32.0.1, next to the upper edge of 172.16/12, is not private
C12_Witness ==
    /\ ret.done
    /\ arg = <<172, 32, 0, 1>>
    /\ ret.value = FALSE

(***************************************************************************)
(* calculateRiskScore applied to bounded inputs (index.ts 864-900)         *)
(*                                                                         *)
(* SpecScore: the argument ranges over the parameter's type: three         *)
(* booleans, two statuses (number | null), a provider and a server header  *)
(* (string | null, the empty string included), up to MaxTech technologies  *)
(* and up to MaxPorts ports, sensitive or not, with repetitions.           *)
(***************************************************************************)
MaxTech == 4
MaxPorts == 3

SeqsUpTo(S, n) == UNION {[1..k -> S] : k \in 0..n}

ScoreInputs ==
    [isAnomaly : BOOLEAN,
     takeoverVulnerable : BOOLEAN,
     takeoverVerified : BOOLEAN,
     httpStatus : {NullStatus, 0, 200, 404},
     httpsStatus : {NullStatus, 0, 200, 404},
     cloudProvider : {NoProvider, "", "aws"},
     server : {Null, <<>>, <<"n","g","i","n","x">>},
     technologies : SeqsUpTo({"Nginx"}, MaxTech),
     exposedPorts : SeqsUpTo({22, 80}, MaxPorts)]

InitScore ==
    /\ arg \in ScoreInputs
    /\ ret = [done |-> FALSE, value |-> 0]
    /\ DomainUnused
    /\ LimiterUnused
    /\ RateUnused
    /\ ScanUnused

\* line 1030: calculateRiskScore({...})
ApplyCalculateRiskScore ==
    /\ ~ret.done
    /\ ret' = [done |-> TRUE, value |-> calculateRiskScore(arg)]
    /\ UNCHANGED <<arg, domainVars, limiterVars, rateVars, scanVars>>

NextScore == ApplyCalculateRiskScore

SpecScore == InitScore /\ [][NextScore]_vars

\* C13: calculateRiskScore returns an integer in [0,100] for every input,
\* however many contributing factors are true at once and however many
\* exposed sensitive ports are listed.
C13_ScoreInRange ==
    ret.done => ret.value \in 0..100

\* every factor at once and MaxPorts sensitive ports: the sum is over 100
C13_Witness ==
    /\ ret.done
    /\ arg.takeoverVerified /\ arg.isAnomaly
    /\ arg.httpStatus = 200 /\ arg.httpsStatus = NullStatus
    /\ arg.cloudProvider = "aws"
    /\ arg.server = <<"n","g","i","n","x">>
    /\ Len(arg.technologies) = MaxTech
    /\ arg.exposedPorts = [i \in 1..MaxPorts |-> 22]
    /\ ret.value = 100

\* the additive formula, given the outcome of its three presence tests
AdditiveFormula(data, noHttps, cloud, serverShown) ==
    LET sum == (IF data.takeoverVerified THEN 50
                ELSE IF data.takeoverVulnerable THEN 30 ELSE 0)
             + (IF data.isAnomaly THEN 20 ELSE 0)
             + (IF noHttps THEN 15 ELSE 0)
             + (IF data.httpStatus = 200 \/ data.httpsStatus = 200 THEN 5 ELSE 0)
             + (IF cloud THEN 5 ELSE 0)
             + 10 * Cardinality({i \in DOMAIN data.exposedPorts :
                   data.exposedPorts[i] \in {22, 23, 3306, 5432, 6379, 27017, 9200, 11211}})
             + (IF serverShown THEN 2 ELSE 0)
             + (IF 2 * Len(data.technologies) < 6
                THEN 2 * Len(data.technologies) ELSE 6)
    IN  IF sum < 100 THEN sum ELSE 100

\* the presence tests read as "is null" and "is not null"
FormulaByNull(data) ==
    AdditiveFormula(data,
        data.httpsStatus = NullStatus /\ data.httpStatus # NullStatus,
        data.cloudProvider # NoProvider,
        data.server # Null)

\* the presence tests read as absent (null, 0, "") and present
FormulaByPresence(data) ==
    AdditiveFormula(data,
        data.httpsStatus \in {NullStatus, 0} /\ data.httpStatus \notin {NullStatus, 0},
        data.cloudProvider \notin {NoProvider, ""},
        data.server \notin {Null, <<>>})

\* C14 (as stated): for every input calculateRiskScore returns the value of
\* the additive formula with +15 if httpsStatus is null and httpStatus is not
\* null, +5 if cloudProvider is not null and +2 if server is not null.
C14_EqualsFormulaByNull ==
    ret.done => ret.value = FormulaByNull(arg)

\* C14 (amended): for every input calculateRiskScore returns the value of
\* the additive formula with +15 if httpsStatus is null or 0 and httpStatus
\* is neither null nor 0, +5 if cloudProvider is neither null nor empty and
\* +2 if server is neither null nor empty; the other terms as stated.
C14_EqualsFormulaByPresence ==
    ret.done => ret.value = FormulaByPresence(arg)

\* the example: anomaly, verified takeover, HTTP 200, no HTTPS, aws: 95
C14_Witness ==
    /\ ret.done
    /\ arg.isAnomaly /\ arg.takeoverVerified
    /\ arg.httpStatus = 200 /\ arg.httpsStatus = NullStatus
    /\ arg.cloudProvider = "aws"
    /\ arg.server = Null
    /\ arg.technologies = <<>>
    /\ arg.exposedPorts = <<>>
    /\ ret.value = 95

(***************************************************************************)
(* The scorer of the test suite (scanning-accuracy.test.ts 402-423)        *)
(***************************************************************************)
testCalculateRiskScore(data, randomFactor) ==
    LET anomaly == IF data.isAnomaly THEN 30 ELSE 0
        takeover == IF data.takeoverVulnerable THEN 40 ELSE 0
        noHttps == IF ~StatusTruthy(data.httpsStatus) /\ StatusTruthy(data.httpStatus)
                   THEN 10 ELSE 0
        cloudAsset == IF ProviderTruthy(data.cloudProvider) THEN 5 ELSE 0
        reachable == IF data.httpStatus = 200 \/ data.httpsStatus = 200 THEN 5 ELSE 0
    IN  Min(anomaly + takeover + noHttps + cloudAsset + reachable + randomFactor, 100)

\* C15: for every input with takeoverVerified = false, server = null, no
\* technologies and no exposed ports, calculateRiskScore of the edge function
\* returns the value of the test suite's scorer (anomaly 30, takeover 40,
\* HTTP without HTTPS 10, cloud provider 5, a 200 status 5).
C15_EqualsTestScorer ==
    (/\ ret.done
     /\ ~arg.takeoverVerified
     /\ arg.server = Null
     /\ arg.technologies = <<>>
     /\ arg.exposedPorts = <<>>)
        => ret.value = testCalculateRiskScore(arg, 0)

(***************************************************************************)
(* Claims on the handler's records                                         *)
(***************************************************************************)
\* the activity rule, read off a record's two status columns
ActiveByRule(row) ==
    \/ row.http_status = 200
    \/ row.https_status = 200
    \/ row.https_status # NullStatus /\ row.https_status < 500

\* every record built and every row stored carries the status of the rule
StatusFollowsRule ==
    /\ \A i \in DOMAIN results :
          results[i].status = (IF ActiveByRule(results[i]) THEN "active" ELSE "inactive")
    /\ \A i \in DOMAIN subRows :
          subRows[i].status = (IF ActiveByRule(subRows[i]) THEN "active" ELSE "inactive")

\* C16: every persisted record has status 'active' if and only if httpStatus
\* is 200 or httpsStatus is 200 or httpsStatus is not null and below 500, and
\* 'inactive' otherwise; the 'active' summary count of a completed scan
\* counts exactly those records.
C16_ActiveByRuleAndCounted ==
    /\ StatusFollowsRule
    /\ scanStatus = "completed" =>
          scanRow.active = Cardinality({i \in DOMAIN subRows : ActiveByRule(subRows[i])})

\* C17: every record's name ends with "." followed by the target domain,
\* whichever source produced it (wordlist, permutation or CT log).
C17_NamesUnderTarget ==
    /\ \A i \in DOMAIN results : EndsWith(results[i].name, Dot \o request.domain)
    /\ \A i \in DOMAIN subRows : EndsWith(subRows[i].name, Dot \o request.domain)

Distinct(names) ==
    \A i, j \in DOMAIN names : i # j => names[i] # names[j]

NamesOf(rows) == [i \in DOMAIN rows |-> rows[i].name]

\* C18: no two records of a scan share a name: a name produced by several
\* sources is one candidate, and one record at most.
C18_NamesDistinct ==
    /\ Distinct(candidates)
    /\ Distinct(NamesOf(results))
    /\ Distinct(NamesOf(subRows))

\* api-v2.example.com comes from the CT log (as API-v2.example.com), from the
\* wordlist and from the permutations, and is one of two records
C18_Witness ==
    /\ hpc = "returned" /\ response.status = 200
    /\ request.options.ctLogs /\ request.options.dnsBruteforce
    /\ Len(candidates) = 2
    /\ Len(subRows) = 2
    /\ \E i \in DOMAIN subRows : subRows[i].name = WordlistSample[1] \o Dot \o request.domain

\* the worker of c has returned while its checkHTTP call is still waiting
\* for a reply: the 10 s timer won the race of line 992
TimedOut(c) ==
    /\ wpc[c] = "done"
    /\ probe[c].pc \in {"https", "http"}

\* C19: when the probe of a candidate does not finish within the timeout, its
\* httpStatus, httpsStatus, server and body are null and its technologies
\* empty, and the candidate still passes detection and scoring and yields
\* one record.
C19_TimedOutStillRecorded ==
    \A c \in Candidates :
        TimedOut(c) =>
            LET r == result[c]
            IN  /\ ~r.dropped
                /\ r.httpData.httpStatus = NullStatus
                /\ r.httpData.httpsStatus = NullStatus
                /\ r.httpData.server = Null
                /\ r.httpData.responseBody = Null
                /\ r.httpData.technologies = <<>>
                /\ r.anomalyData = detectAnomaly(candidates[c])
                /\ r.cloudProvider =
                       detectCloudProvider(candidates[c], resolveDNS(dnsReply[c]).cname)
                /\ r.takeoverData =
                       checkTakeoverVulnerability(resolveDNS(dnsReply[c]).cname,
                                                  Null, NullStatus, NullStatus)
                /\ r.riskScore \in 0..100
                /\ Aggregated =>
                       \E i \in DOMAIN results :
                           /\ RecordsOf(c) = {i}
                           /\ results[i].http_status = NullStatus
                           /\ results[i].https_status = NullStatus
                           /\ results[i].server = Null
                           /\ results[i].technologies = <<>>
                           /\ results[i].risk_score = r.riskScore

\* a scan has returned with the record of a candidate whose probe never
\* answered
C19_Witness ==
    /\ hpc = "returned" /\ response.status = 200
    /\ \E c \in Candidates :
          /\ TimedOut(c)
          /\ \E i \in DOMAIN subRows : subRows[i].name = candidates[c]

\* C20: each probe attempt is time-bounded on its own: when the HTTPS attempt
\* of a candidate gives no answer, only the HTTPS data is missing, and the
\* status that the HTTP attempt obtains is kept in the candidate's record.
C20_HttpStatusKept ==
    \A c \in Candidates :
        (/\ wpc[c] = "done"
         /\ ~result[c].dropped
         /\ probe[c].pc = "settled"
         /\ probe[c].data.httpStatus # NullStatus)
            => result[c].httpData.httpStatus = probe[c].data.httpStatus

BothStatuses(h) == h.httpStatus # NullStatus /\ h.httpsStatus # NullStatus

\* C21: within one probe the HTTPS request is issued first and the HTTP
\* request only after the HTTPS request failed without a response, never
\* after an HTTPS status of any kind; no probe result, and no record, has
\* both httpStatus and httpsStatus.
C21_HttpOnlyAfterHttpsFailed ==
    /\ \A c \in Candidates :
          /\ <<"http", c>> \in issued =>
                /\ <<"https", c>> \in issued
                /\ probe[c].pc \in {"http", "settled"}
                /\ probe[c].data.httpsStatus = NullStatus
          /\ ~BothStatuses(probe[c].data)
          /\ ~BothStatuses(httpData[c])
    /\ \A i \in DOMAIN results :
          results[i].http_status = NullStatus \/ results[i].https_status = NullStatus

\* a record with the status of the HTTP fallback
C21_Witness ==
    \E c \in Candidates :
        /\ <<"http", c>> \in issued
        /\ probe[c].pc = "settled"
        /\ \E i \in DOMAIN results :
              /\ results[i].name = candidates[c]
              /\ results[i].http_status = 200
              /\ results[i].https_status = NullStatus

\* the handler has returned from a request it accepted
ReturnedFromAccepted ==
    /\ hpc = "returned"
    /\ request.wellFormed
    /\ ~Rejected(request.domain)

C22_WitnessCT ==
    /\ ReturnedFromAccepted
    /\ scanStatus = "completed"
    /\ request.options.ctLogs
    /\ Len(candidates) = 1

(***************************************************************************)
(* The handler from its join on (index.ts 1058-1137)                       *)
(*                                                                         *)
(* SpecBatch: the handler with up to MaxRecords candidates, every worker   *)
(* returned: a scan with the probe switched off whose candidates all       *)
(* resolve to a public address.  The steps are those of Spec.              *)
(***************************************************************************)
MaxRecords == 101

\* the i-th candidate name
HostName(i) == <<"h">> \o ToDecimal(i) \o Dot \o ExampleCom

PublicAnswer == [ok |-> TRUE, Answer |-> << A(<<"9","3",".","1","8","4",".","2","1","6",".","3","4">>) >>]

InitBatch ==
    /\ cpc = "invoked" /\ isScanning = TRUE /\ currentScanId = 1
    /\ scanStatus = "running" /\ scanRow = NoSummary /\ subRows = <<>>
    /\ hpc = "workers" /\ response = NoResponse
    /\ request = [wellFormed |-> TRUE, domain |-> ExampleCom,
                  options |-> [ctLogs |-> TRUE, dnsBruteforce |-> TRUE, httpProbe |-> FALSE]]
    /\ \E n \in 0..MaxRecords :
          /\ candidates = [c \in 1..n |-> HostName(c)]
          /\ issued = {<<"ct", 0>>} \cup {<<"dns", c>> : c \in 1..n}
          /\ dnsReply = [c \in 1..n |-> PublicAnswer]
          /\ probe = [c \in 1..n |-> [pc |-> "none", data |-> NullHttpData]]
          /\ httpData = [c \in 1..n |-> NullHttpData]
          /\ result = [c \in 1..n |->
                          WorkerResult(c, resolveDNS(PublicAnswer), NullHttpData, <<>>)]
          /\ wpc = [c \in 1..n |-> "done"]
    /\ results = <<>> /\ counts = NoCounts /\ batchStart = 0
    /\ concurrency = Min(MAX_CONCURRENT, MaxPool) /\ running = 0 /\ queue = <<>>
    /\ outcome = <<>>
    /\ DomainUnused
    /\ RateUnused
    /\ PureUnused

NextBatch ==
    \/ HandlerAggregates
    \/ HandlerInsertsBatch
    \/ HandlerCompletes

SpecBatch == InitBatch /\ [][NextBatch]_vars

\* the k-th run of 50 consecutive records, k = 0, 1, ...
BatchOf(k) ==
    SubSeq(results, 50 * k + 1,
           IF 50 * k + 50 < Len(results) THEN 50 * k + 50 ELSE Len(results))

\* the number of such runs that cover the records
BatchCount == (Len(results) + 49) \div 50

\* the runs of S from the k-th on, in order
RECURSIVE BatchesFrom(_, _)
BatchesFrom(S, k) ==
    IF k >= BatchCount THEN <<>>
    ELSE (IF k \in S THEN BatchOf(k) ELSE <<>>) \o BatchesFrom(S, k + 1)

TakeoverCnames ==
    { Null, <<>>,
      <<"a","p","p",".","h","e","r","o","k","u","a","p","p",".","c","o","m">>,
      <<"M","y","A","p","p",".","H","e","r","o","k","u","A","p","p",".","C","O","M">>,
      <<"s","i","t","e",".","g","i","t","h","u","b",".","i","o">>,
      <<"b","u","c","k","e","t",".","s","3",".","a","m","a","z","o","n","a","w","s",".","c","o","m">>,
      <<"b","u","c","k","e","t",".","s","3","-","e","u","-","w","e","s","t","-","1",".","a","m","a","z","o","n","a","w","s",".","c","o","m">>,
      <<"d","1",".","c","l","o","u","d","f","r","o","n","t",".","n","e","t">>,
      <<"h","e","r","o","k","u","a","p","p",".","c","o","m">>,
      <<"a","p","p",".","h","e","r","o","k","u","a","p","p",".","c","o","m",".","e","x","a","m","p","l","e",".","o","r","g">>,
      <<"w","w","w",".","e","x","a","m","p","l","e",".","o","r","g">> }

TakeoverBodies ==
    { Null, <<>>,
      <<"n","o","-","s","u","c","h","-","a","p","p">>,
      <<"N","o","S","u","c","h","B","u","c","k","e","t">>,
      <<"n","o","s","u","c","h","b","u","c","k","e","t">>,
      <<"T","h","e","r","e"," ","i","s","n","'","t"," ","a"," ","G","i","t","H","u","b"," ","P","a","g","e","s"," ","s","i","t","e"," ","h","e","r","e">>,
      <<"4","0","4">>,
      <<"w","e","l","c","o","m","e">> }

TakeoverInputs ==
    [cname : TakeoverCnames, responseBody : TakeoverBodies,
     httpStatus : {NullStatus, 200, 404}, httpsStatus : {NullStatus, 200, 404}]

NotVulnerable == [vulnerable |-> FALSE, type |-> NoType, verified |-> FALSE]

InitTakeover ==
    /\ arg \in TakeoverInputs
    /\ ret = [done |-> FALSE, value |-> NotVulnerable]
    /\ DomainUnused
    /\ LimiterUnused
    /\ RateUnused
    /\ ScanUnused

\* line 1015: checkTakeoverVulnerability(cname, body, httpStatus, httpsStatus)
ApplyCheckTakeover ==
    /\ ~ret.done
    /\ ret' = [done |-> TRUE,
               value |-> checkTakeoverVulnerability(arg.cname, arg.responseBody,
                                                    arg.httpStatus, arg.httpsStatus)]
    /\ UNCHANGED <<arg, domainVars, limiterVars, rateVars, scanVars>>

NextTakeover == ApplyCheckTakeover

SpecTakeover == InitTakeover /\ [][NextTakeover]_vars

\* the fingerprints with a pattern that the CNAME matches
FingerprintsOf(cname) ==
    IF cname = Null THEN {}
    ELSE {k \in DOMAIN TAKEOVER_FINGERPRINTS :
             \E i \in DOMAIN TAKEOVER_FINGERPRINTS[k].patterns :
                 MatchesPattern(TAKEOVER_FINGERPRINTS[k].patterns[i], cname)}

\* C24: checkTakeoverVulnerability returns vulnerable = false, type = null,
\* verified = false when the CNAME is null or matches no fingerprint;
\* otherwise vulnerable = true with the type of the matching fingerprint, and
\* verified is true if and only if the body contains one of that service's
\* error signatures or the type is GitHub Pages and one status is 404.
C24_TakeoverVerdict ==
    ret.done =>
        /\ ret.value.verified => ret.value.vulnerable
        /\ FingerprintsOf(arg.cname) = {} => ret.value = NotVulnerable
        /\ FingerprintsOf(arg.cname) # {} =>
              /\ ret.value.vulnerable
              /\ \E k \in FingerprintsOf(arg.cname) :
                    LET fp == TAKEOVER_FINGERPRINTS[k]
                        bySignature ==
                            /\ arg.responseBody # Null
                            /\ \E i \in DOMAIN fp.errorSignatures :
                                  Includes(arg.responseBody, fp.errorSignatures[i])
                        byStatus ==
                            /\ fp.type = "GitHub Pages"
                            /\ (arg.httpStatus = 404 \/ arg.httpsStatus = 404)
                    IN  /\ ret.value.type = fp.type
                        /\ ret.value.verified = (bySignature \/ byStatus)

\* a GitHub Pages CNAME verified by the 404 alone
C24_Witness ==
    /\ ret.done
    /\ arg.cname = <<"s","i","t","e",".","g","i","t","h","u","b",".","i","o">>
    /\ arg.responseBody = Null
    /\ arg.httpStatus = NullStatus /\ arg.httpsStatus = 404
    /\ ret.value = [vulnerable |-> TRUE, type |-> "GitHub Pages", verified |-> TRUE]

(***************************************************************************)
(* detectAnomaly as the handler calls it (index.ts 819-826, 1013)           *)
(*                                                                         *)
(* SpecAnomaly: a candidate is a prefix in front of a target domain; the   *)
(* handler passes the whole name.                                          *)
(***************************************************************************)
AnomalyPrefixes ==
    { <<"w","w","w">>,
      <<"m","a","i","l">>,
      <<"a","p","i","-","v","2">>,
      <<"d","e","v">>,
      <<"D","E","V","-","a","p","i">>,
      <<"d","b","-","b","a","c","k","u","p">>,
      <<"o","l","d">>,
      <<"s","h","o","p">>,
      <<"a","d","m","i","n","i","s","t","r","a","t","o","r">>,
      <<"c","d","n","1">> }

AnomalyDomains ==
    { <<"e","x","a","m","p","l","e",".","c","o","m">>,
      <<"E","x","a","m","p","l","e",".","C","O","M">>,
      <<"o","l","d","d","o","m","a","i","n",".","c","o","m">>,
      <<"d","e","v","o","n",".","i","o">>,
      <<"t","e","s","t",".","o","r","g">>,
      <<"a","r","c","h","i","v","e",".","o","r","g">>,
      <<"m","y","t","e","m","p","l","e",".","c","o","m">>,
      <<"a","c","m","e",".","c","o",".","u","k">> }

NoAnomaly == [isAnomaly |-> FALSE, reason |-> Null]

InitAnomaly ==
    /\ arg \in [prefix : AnomalyPrefixes, domain : AnomalyDomains]
    /\ ret = [done |-> FALSE, value |-> NoAnomaly]
    /\ DomainUnused
    /\ LimiterUnused
    /\ RateUnused
    /\ ScanUnused

\* line 1013: detectAnomaly(subdomain), subdomain being the candidate's name
ApplyDetectAnomaly ==
    /\ ~ret.done
    /\ ret' = [done |-> TRUE, value |-> detectAnomaly(arg.prefix \o Dot \o arg.domain)]
    /\ UNCHANGED <<arg, domainVars, limiterVars, rateVars, scanVars>>

NextAnomaly == ApplyDetectAnomaly

SpecAnomaly == InitAnomaly /\ [][NextAnomaly]_vars

\* the suspicious tokens that the text contains, whatever the case
TokensIn(text) ==
    {k \in DOMAIN ANOMALY_PATTERNS : Includes(ToLowerCase(text), ANOMALY_PATTERNS[k])}

\* C25: anomaly detection depends only on the candidate's prefix in front of
\* the target domain: isAnomaly is true exactly when the prefix contains a
\* suspicious token, whatever the case, and the reason is the first pattern
\* that matches the prefix; so the same prefix under two target domains gets
\* the same verdict.
C25_AnomalyOfPrefixOnly ==
    ret.done =>
        /\ ret.value.isAnomaly = (TokensIn(arg.prefix) # {})
        /\ ret.value.isAnomaly =>
              \E k \in TokensIn(arg.prefix) :
                  /\ \A j \in TokensIn(arg.prefix) : k <= j
                  /\ ret.value.reason = ANOMALY_PATTERNS[k]

\* the handler has collected its candidates (line 958)
Collected ==
    \/ hpc \in {"workers", "insert", "complete"}
    \/ hpc = "returned" /\ response.status = 200

\* C26: each candidate source can be switched off through the scan options
\* and then contributes no candidate: with every option of a source off the
\* candidate set is empty.
C26_AllSourcesOffNoCandidates ==
    (/\ Collected
     /\ ~request.options.ctLogs
     /\ ~request.options.dnsBruteforce)
        => candidates = <<>>

CloudNames ==
    { <<"a","p","i",".","e","x","a","m","p","l","e",".","c","o","m">>,
      <<"S","3",".","e","x","a","m","p","l","e",".","c","o","m">>,
      <<"e","c","2",".","e","x","a","m","p","l","e",".","c","o","m">>,
      <<"l","b",".","e","l","b",".","e","x","a","m","p","l","e",".","c","o","m">>,
      <<"d","o","c","s","3",".","e","x","a","m","p","l","e",".","c","o","m">>,
      <<"w","w","w",".","e","x","a","m","p","l","e",".","c","o","m">>,
      <<"m","y","a","p","p",".","h","e","r","o","k","u","a","p","p",".","c","o","m">> }

\* the CNAME of the DNS answer: null, empty, or a name
CloudCnames ==
    { Null, <<>>,
      <<"b","u","c","k","e","t",".","s","3",".","a","m","a","z","o","n","a","w","s",".","c","o","m">>,
      <<"a","p","p",".","A","z","u","r","e","W","e","b","s","i","t","e","s",".","n","e","t">>,
      <<"x",".","h","e","r","o","k","u","a","p","p",".","c","o","m">>,
      <<"s","i","t","e",".","n","e","t","l","i","f","y",".","a","p","p">>,
      <<"d","1","2","3","4",".","c","l","o","u","d","f","r","o","n","t",".","n","e","t">>,
      <<"s","t","o","r","a","g","e",".","g","o","o","g","l","e","a","p","i","s",".","c","o","m">>,
      <<"a",".","c","d","n",".","c","l","o","u","d","f","l","a","r","e",".","n","e","t">>,
      <<"x",".","d","i","g","i","t","a","l","o","c","e","a","n","s","p","a","c","e","s",".","c","o","m">>,
      <<"x",".","v","e","r","c","e","l",".","a","p","p">>,
      <<"e","x","a","m","p","l","e",".","c","o","m">> }

InitCloud ==
    /\ arg \in [subdomain : CloudNames, cname : CloudCnames]
    /\ ret = [done |-> FALSE, value |-> NoProvider]
    /\ DomainUnused
    /\ LimiterUnused
    /\ RateUnused
    /\ ScanUnused

\* line 1010: detectCloudProvider(subdomain, cname)
ApplyDetectCloudProvider ==
    /\ ~ret.done
    /\ ret' = [done |-> TRUE, value |-> detectCloudProvider(arg.subdomain, arg.cname)]
    /\ UNCHANGED <<arg, domainVars, limiterVars, rateVars, scanVars>>

NextCloud == ApplyDetectCloudProvider

SpecCloud == InitCloud /\ [][NextCloud]_vars

\* the names that are tested: the candidate name, and the CNAME when there is one
CloudTargets(a) == {x \in {a.subdomain, a.cname} : x # Null /\ x # <<>>}

\* the providers (as indices of the table) with a pattern that matches a target
MatchingProviders(a) ==
    {k \in DOMAIN CLOUD_PATTERNS :
        \E i \in DOMAIN CLOUD_PATTERNS[k].patterns : \E x \in CloudTargets(a) :
            MatchesPattern(CLOUD_PATTERNS[k].patterns[i], x)}

\* the table with entry k moved to the front: one permutation for each provider
MovedToFront(k) ==
    <<CLOUD_PATTERNS[k]>> \o SelectSeq(CLOUD_PATTERNS, LAMBDA e : e # CLOUD_PATTERNS[k])

\* what the loop of lines 807-815 returns when it walks table
FirstProviderIn(table, a) ==
    LET hits == {k \in DOMAIN table :
                    \E i \in DOMAIN table[k].patterns : \E x \in CloudTargets(a) :
                        MatchesPattern(table[k].patterns[i], x)}
    IN  IF hits = {} THEN NoProvider
        ELSE table[CHOOSE k \in hits : \A j \in hits : k <= j].provider

\* C29 as stated: the patterns of at most one provider match, and the table
\* in any other order gives the same provider.
C29_OrderOfProvidersIrrelevant ==
    ret.done =>
        /\ Cardinality(MatchingProviders(arg)) <= 1
        /\ \A k \in DOMAIN CLOUD_PATTERNS :
              FirstProviderIn(MovedToFront(k), arg) = ret.value

\* C29: the provider returned is the first one of the table with a pattern
\* that matches the candidate name or the CNAME, and null when there is none;
\* when the patterns of at most one provider match, the table in any other
\* order gives the same answer.
C29_FirstMatchingProvider ==
    ret.done =>
        /\ (ret.value = NoProvider) = (MatchingProviders(arg) = {})
        /\ MatchingProviders(arg) # {} =>
              /\ \E k \in MatchingProviders(arg) :
                    /\ ret.value = CLOUD_PATTERNS[k].provider
                    /\ \A j \in MatchingProviders(arg) : k <= j
        /\ Cardinality(MatchingProviders(arg)) <= 1 =>
              \A k \in DOMAIN CLOUD_PATTERNS :
                  FirstProviderIn(MovedToFront(k), arg) = ret.value

C29_Witness ==
    /\ ret.done
    /\ Cardinality(MatchingProviders(arg)) = 1
    /\ arg.cname # Null
    /\ ret.value = "azure"

\* ---- the limiter with its callers numbered in the order of their calls
\* limit(fn) is called by the next caller
CallInOrder(t) ==
    /\ \A u \in 1..(t - 1) : wpc[u] # "idle"
    /\ Call(t)

NextLimiterOrdered ==
    \/ \E t \in Tasks : CallInOrder(t)
    \/ \E t \in Tasks : Resume(t)
    \/ \E t \in Tasks : TaskReturns(t)
    \/ \E t \in Tasks : TaskThrows(t)
    \/ \E t \in Tasks : Release(t)

SpecLimiterOrdered == InitLimiter /\ [][NextLimiterOrdered]_vars

\* caller t has started its task while the earlier caller u is parked in the queue
Overtaken(u, t) ==
    /\ u < t
    /\ wpc[u] = "waiting"
    /\ wpc[t] \in {"run", "settled", "done"}

\* every call so far was made before any slot was given back
AllCalledBeforeRelease ==
    (\E t \in Tasks : wpc[t] = "idle") => (\A u \in Tasks : wpc[u] # "done")

\* C30 as stated: whenever the calls arrive, no caller has started its task
\* while an earlier caller is still waiting in the queue.
C30_AdmittedInCallOrder ==
    \A u, t \in Tasks : ~Overtaken(u, t)

\* C30: when every limit() call is made before any task gives its slot back,
\* as in the loop of lines 969-971, no caller starts its task while an earlier
\* caller is still waiting in the queue.
C30_AdmittedInCallOrderWhenCalledFirst ==
    [](AllCalledBeforeRelease) =>
        [](\A u, t \in 1..MaxTasks : ~Overtaken(u, t))

\* two callers are parked, the first has been admitted after a slot was given
\* back and the second still waits
C30_Witness ==
    /\ \A t \in Tasks : wpc[t] # "idle"
    /\ \E a, u, t \in Tasks :
          /\ a < u /\ u < t
          /\ wpc[a] = "done"
          /\ wpc[u] = "run"
          /\ wpc[t] = "waiting"
    /\ queue # <<>>

LimiterFairness ==
    \A t \in 1..MaxTasks :
        /\ WF_vars(Resume(t))
        /\ WF_vars(TaskReturns(t) \/ TaskThrows(t))
        /\ WF_vars(Release(t))

SpecLimiterFair == SpecLimiter /\ LimiterFairness

\* C27: if every started task finishes, every call of limit() is admitted and
\* settles in the end; a waiter is never left queued next to a free slot with
\* nobody woken.
C27_EveryCallSettles ==
    /\ [](Len(queue) > 0 /\ running < concurrency
            => \E t \in Tasks : wpc[t] = "woken")
    /\ \A t \in 1..MaxTasks : (wpc[t] \in {"waiting", "woken"}) ~> (wpc[t] = "run")
    /\ \A t \in 1..MaxTasks : (wpc[t] # "idle") ~> (wpc[t] = "done")

\* a finished task has woken the first waiter, a second one is still queued
C27_Witness ==
    /\ Len(queue) > 0
    /\ running < concurrency
    /\ \E t, u \in Tasks : wpc[t] = "woken" /\ wpc[u] = "done"

=============================================================================
